---------------------------- MODULE Spec2Model ----------------------------
(***************************************************************************)
(* A model of catamari: the coordinate-format sparse matrix, the dense     *)
(* factorization kernels, the supernodal drivers' pivot accounting and the *)
(* elimination forest.  Each subsystem has its own specification; the      *)
(* variables of the other subsystems stay at their idle values.            *)
(***************************************************************************)
EXTENDS Integers, Sequences, FiniteSets, TLC

(***************************************************************************)
(* Bounds of the model.                                                    *)
(***************************************************************************)
\* Calls of QueueEntryAddition and QueueEntryRemoval in one run.
MaxQueued == 3
\* Non-empty batches flushed in one run.
MaxFlushes == 2
\* Bits of the significand of the modelled floating-point Ring.
SigBits == 2
\* Largest height of a dense matrix handed to a factorization kernel.
MaxHeight == 3
\* Largest block size handed to a blocked kernel.
MaxBlockSize == 2
\* Largest number of supernodes of an assembly forest.
MaxSupernodes == 3
\* Largest number of columns of a supernode.
MaxSupernodeSize == 2
\* Largest number of rows of a matrix whose elimination forest is computed.
MaxRows == 4
\* Largest number of rows of a matrix handed to the symbolic analysis, and
\* largest number of nonzeros below its diagonal.
MaxOrder == 5
MaxEdges == 4

VARIABLES
  \* CoordinateMatrix (coordinate_matrix.hpp:226-247)
  num_rows, num_columns, entries, row_entry_offsets,
  entries_to_add, entries_to_remove,
  \* history: the last operation called on the matrix, the batch the last
  \* FlushEntryQueues applied, and the calls counted against the bounds
  lastOp, flushed, numFlushes, numQueued,
  \* A dense factorization call: the Hermitian input, the BlasMatrixView it
  \* is overwritten in, the parameters, the kernel that ran, what it
  \* returned, the regularization log, and whether every square root the
  \* kernel took was exact
  input, matrix, height, block_size, positive_threshold, kernel, returned,
  dynamic_regularization, sqrt_exact,
  \* A supernodal factorization: the assembly forest, the supernode sizes,
  \* what FactorDiagonalBlock returns for each supernode, the driver that
  \* ran and the pivot count of the result it returned
  num_supernodes, assembly_parents, supernode_sizes, supernode_pivots,
  driver, num_successful_pivots,
  \* An elimination forest computation on the coordinate matrix: the
  \* SymmetricOrdering, the outputs, and whether the call has been made
  permutation, inverse_permutation, parents, degrees, forest_call,
  \* The symbolic analysis of a supernodal factorization: the scalar
  \* LowerStructure, the fundamental supernodes, and the stage reached
  scalar_structure, orig_supernode_sizes, analysis,
  \* The SupernodalRelaxationControl and what RelaxSupernodes produced
  relaxation_control, relaxed,
  \* The structure of the supernodal LowerFactor
  lower_factor,
  \* The numerical factorization: the significand bits of the Field (0 when
  \* its arithmetic is exact), and for each driver the blocks of the factors,
  \* its shared state and how far it got
  precision, left_looking, right_looking,
  \* A Factorization's solves: the BLAS library's thread count, the shared
  \* state Solve keeps between calls (the number of workspace buffers and of
  \* per-supernode views), and the call in progress: where it stands, what
  \* it read, and the supernodes each sweep has solved
  num_blas_threads, solve_shared_state, solve,
  \* A DPP sample: the random generator, the flag of the call, the indices
  \* returned, and the tile size of the OpenMP kernel
  generator, maximum_likelihood, sample, tile_size,
  \* The subtree calls and tasks of the right-looking drivers, and the tile
  \* tasks of an OpenMP dense kernel
  subtree_tasks, tile_tasks

cmVars == <<num_rows, num_columns, entries, row_entry_offsets,
            entries_to_add, entries_to_remove, lastOp, flushed, numFlushes, numQueued>>

dkVars == <<input, matrix, height, block_size, positive_threshold, kernel,
            returned, dynamic_regularization, sqrt_exact>>

drVars == <<num_supernodes, assembly_parents, supernode_sizes,
            supernode_pivots, driver, num_successful_pivots>>

efVars == <<permutation, inverse_permutation, parents, degrees, forest_call>>

snVars == <<scalar_structure, orig_supernode_sizes, analysis,
            relaxation_control, relaxed, lower_factor>>

nfVars == <<precision, left_looking, right_looking>>

slVars == <<num_blas_threads, solve_shared_state, solve>>

dpVars == <<generator, maximum_likelihood, sample, tile_size>>

tkVars == <<subtree_tasks, tile_tasks>>

vars == <<cmVars, dkVars, drVars, efVars, snVars, nfVars, slVars, dpVars, tkVars>>

\* What the operations of one subsystem leave alone.
cmOthers == <<dkVars, drVars, efVars, snVars, nfVars, slVars, dpVars, tkVars>>
dkOthers == <<cmVars, drVars, efVars, snVars, nfVars, slVars, dpVars, tkVars>>
drOthers == <<cmVars, dkVars, efVars, snVars, nfVars, slVars, dpVars, tkVars>>
efOthers == <<cmVars, dkVars, drVars, snVars, nfVars, slVars, dpVars, tkVars>>
snOthers == <<cmVars, dkVars, drVars, nfVars, slVars, dpVars, tkVars>>
nfOthers == <<cmVars, dkVars, drVars, efVars, snVars, slVars, dpVars, tkVars>>

(***************************************************************************)
(* The Ring.  The test instantiates CoordinateMatrix<float>; the model is  *)
(* a binary floating-point format with SigBits significand bits and        *)
(* round-to-nearest-even, over the integers.                               *)
(***************************************************************************)
RECURSIVE Log2(_)
Log2(m) == IF m < 2 THEN 0 ELSE 1 + Log2(m \div 2)

Abs(x) == IF x < 0 THEN -x ELSE x

Round(x) ==
  IF x = 0 THEN 0
  ELSE LET m == Abs(x)
           e == Log2(m)
           ulp == IF e < SigBits THEN 1 ELSE 2^(e - SigBits + 1)
           q == m \div ulp
           r == m % ulp
           n == IF 2 * r < ulp THEN q * ulp
                ELSE IF 2 * r > ulp THEN (q + 1) * ulp
                ELSE IF q % 2 = 0 THEN q * ulp ELSE (q + 1) * ulp
       IN  IF x < 0 THEN -n ELSE n

\* Ring operator+= on the value of a MatrixEntry.
RingAdd(a, b) == Round(a + b)

\* The values a caller queues: one, and the smallest value whose successor is
\* not representable.
AddValues == {1, 2^SigBits}

\* The shapes a caller resizes to.
Shapes == {<<1, 2>>, <<2, 2>>}

(***************************************************************************)
(* MatrixEntry and GraphEdge order: lexicographic by (row, column).        *)
(***************************************************************************)
EntryLess(a, b) == a.row < b.row \/ (a.row = b.row /\ a.column < b.column)

PermsOf(n) == {p \in [1..n -> 1..n] : \A i, j \in 1..n : i # j => p[i] # p[j]}

\* The arrangements of a sequence.
Arrangements(q) == {[i \in 1..Len(q) |-> q[p[i]]] : p \in PermsOf(Len(q))}

\* A sort that compares rows only.
SortByRow(q) ==
  {s \in Arrangements(q) :
     \A i, j \in 1..Len(s) : i < j => s[i].row <= s[j].row}

\* std::sort is not stable: it returns some arrangement in which no element
\* is less than an earlier one; which of them is unspecified.
StdSort(q) ==
  {s \in Arrangements(q) :
     \A i, j \in 1..Len(s) : i < j => ~EntryLess(s[j], s[i])}

\* std::sort followed by EraseDuplicatesInSortedVector on the removal queue:
\* the result is unique because a GraphEdge is only its key.
RECURSIVE SortedEdges(_)
SortedEdges(S) ==
  IF S = {} THEN <<>>
  ELSE LET m == CHOOSE x \in S : \A y \in S : ~EntryLess(y, x)
       IN  <<m>> \o SortedEdges(S \ {m})

SeqRange(q) == {q[i] : i \in 1..Len(q)}

\* std::merge of two sorted ranges: of equivalent elements those of the first
\* range come first.
RECURSIVE StdMerge(_, _)
StdMerge(a, b) ==
  IF a = <<>> THEN b
  ELSE IF b = <<>> THEN a
  ELSE IF EntryLess(b[1], a[1]) THEN <<b[1]>> \o StdMerge(a, Tail(b))
  ELSE <<a[1]>> \o StdMerge(Tail(a), b)

\* A combining loop that keeps the last value of a key instead of the sum.
RECURSIVE CombineLoopOverwrite(_, _, _, _, _)
CombineLoopOverwrite(es, index, packed, last_row, last_column) ==
  IF index > Len(es) THEN packed
  ELSE LET entry == es[index]
       IN  IF entry.row = last_row /\ entry.column = last_column
           THEN CombineLoopOverwrite(es, index + 1,
                                     [packed EXCEPT ![Len(packed)].value =
                                        entry.value],
                                     last_row, last_column)
           ELSE CombineLoopOverwrite(es, index + 1, Append(packed, entry),
                                     entry.row, entry.column)

\* A CombineSortedEntries that leaves its argument as it is.
KeepDuplicates(es) == es

\* The loop of CombineSortedEntries: 'packed' is the prefix written so far.
RECURSIVE CombineLoop(_, _, _, _, _)
CombineLoop(es, index, packed, last_row, last_column) ==
  IF index > Len(es) THEN packed
  ELSE LET entry == es[index]
       IN  IF entry.row = last_row /\ entry.column = last_column
           THEN CombineLoop(es, index + 1,
                            [packed EXCEPT ![Len(packed)].value =
                               RingAdd(@, entry.value)],
                            last_row, last_column)
           ELSE CombineLoop(es, index + 1, Append(packed, entry),
                            entry.row, entry.column)

CombineSortedEntries(es) == CombineLoop(es, 1, <<>>, -1, -1)

\* std::lower_bound: the first position whose element is not less than edge.
LowerBound(sorted, edge) ==
  IF \E i \in 1..Len(sorted) : ~EntryLess(sorted[i], edge)
  THEN CHOOSE i \in 1..Len(sorted) :
         /\ ~EntryLess(sorted[i], edge)
         /\ \A j \in 1..(i - 1) : EntryLess(sorted[j], edge)
  ELSE Len(sorted) + 1

Edge(e) == [row |-> e.row, column |-> e.column]

\* A packing loop that drops every entry in the row of a queued removal.
RECURSIVE RemovalLoopByRow(_, _, _, _)
RemovalLoopByRow(es, index, packed, sorted) ==
  IF index > Len(es) THEN packed
  ELSE IF \E i \in 1..Len(sorted) : sorted[i].row = es[index].row
  THEN RemovalLoopByRow(es, index + 1, packed, sorted)
  ELSE RemovalLoopByRow(es, index + 1, Append(packed, es[index]), sorted)

\* FlushEntryRemovalQueue(false): pack the entries that are not queued.
RECURSIVE RemovalLoop(_, _, _, _)
RemovalLoop(es, index, packed, sorted) ==
  IF index > Len(es) THEN packed
  ELSE LET edge == Edge(es[index])
           iter == LowerBound(sorted, edge)
       IN  IF iter = Len(sorted) + 1 \/ sorted[iter] # edge
           THEN RemovalLoop(es, index + 1, Append(packed, es[index]), sorted)
           ELSE RemovalLoop(es, index + 1, packed, sorted)

FlushEntryRemovalQueue(es, to_remove) ==
  IF to_remove # <<>>
  THEN RemovalLoop(es, 1, <<>>, SortedEdges(SeqRange(to_remove)))
  ELSE es

\* FlushEntryAdditionQueue, given the arrangement std::sort produced.
FlushEntryAdditionQueue(es, sorted_to_add) ==
  IF sorted_to_add # <<>>
  THEN CombineSortedEntries(StdMerge(es, CombineSortedEntries(sorted_to_add)))
  ELSE es

\* UpdateRowEntryOffsets: offsets[r + 1] models row_entry_offsets_[r].
RECURSIVE OffsetsLoop(_, _, _, _, _)
OffsetsLoop(es, entry_index, offsets, prev_row, rows) ==
  IF entry_index >= Len(es)
  THEN offsets \o [i \in 1..(rows + 1 - Len(offsets)) |-> Len(es)]
  ELSE LET row == es[entry_index + 1].row
           fill == IF prev_row < row THEN row - prev_row ELSE 0
       IN  OffsetsLoop(es, entry_index + 1,
                       offsets \o [i \in 1..fill |-> entry_index],
                       IF prev_row < row THEN row ELSE prev_row, rows)

UpdateRowEntryOffsets(es, rows) == OffsetsLoop(es, 0, <<>>, -1, rows)

\* A flush that merges the additions first and applies the removals second.
FlushOutcomesAdditionsFirst(es, to_add, to_remove, rows) ==
  {LET merged == FlushEntryRemovalQueue(FlushEntryAdditionQueue(es, s), to_remove)
   IN  [entries |-> merged, offsets |-> UpdateRowEntryOffsets(merged, rows)]
   : s \in StdSort(to_add)}

\* What FlushEntryQueues can leave when the queues are not both empty.
FlushOutcomes(es, to_add, to_remove, rows) ==
  {LET merged == FlushEntryAdditionQueue(FlushEntryRemovalQueue(es, to_remove), s)
   IN  [entries |-> merged, offsets |-> UpdateRowEntryOffsets(merged, rows)]
   : s \in StdSort(to_add)}

NoBatch == [adds |-> <<>>, removes |-> <<>>, before |-> <<>>]

(***************************************************************************)
(* The operations of CoordinateMatrix.                                     *)
(***************************************************************************)
CMInit ==
  /\ num_rows = 0
  /\ num_columns = 0
  /\ entries = <<>>
  /\ row_entry_offsets = <<>>
  /\ entries_to_add = <<>>
  /\ entries_to_remove = <<>>
  /\ lastOp = "construct"
  /\ flushed = NoBatch
  /\ numFlushes = 0
  /\ numQueued = 0

Resize(rows, columns) ==
  /\ lastOp' = "resize"
  /\ flushed' = NoBatch
  /\ IF rows = num_rows /\ columns = num_columns
     THEN UNCHANGED <<num_rows, num_columns, entries, row_entry_offsets,
                      entries_to_add, entries_to_remove>>
     ELSE /\ num_rows' = rows
          /\ num_columns' = columns
          /\ entries' = <<>>
          /\ entries_to_add' = <<>>
          /\ entries_to_remove' = <<>>
          /\ row_entry_offsets' = [i \in 1..(rows + 1) |-> 0]
  /\ UNCHANGED <<numFlushes, numQueued>>
  /\ UNCHANGED cmOthers

QueueEntryAddition(row, column, value) ==
  /\ row >= 0 /\ row < num_rows
  /\ column >= 0 /\ column < num_columns
  /\ numQueued < MaxQueued
  /\ numQueued' = numQueued + 1
  /\ entries_to_add' =
       Append(entries_to_add, [row |-> row, column |-> column, value |-> value])
  /\ lastOp' = "queue_add"
  /\ flushed' = NoBatch
  /\ UNCHANGED <<num_rows, num_columns, entries, row_entry_offsets,
                 entries_to_remove, numFlushes>>
  /\ UNCHANGED cmOthers

\* A removal that is applied to the entries at once instead of queued.
QueueEntryRemovalAtOnce(row, column) ==
  /\ row >= 0 /\ row < num_rows
  /\ column >= 0 /\ column < num_columns
  /\ numQueued < MaxQueued
  /\ numQueued' = numQueued + 1
  /\ entries' = FlushEntryRemovalQueue(entries, <<[row |-> row, column |-> column]>>)
  /\ lastOp' = "queue_remove"
  /\ flushed' = NoBatch
  /\ UNCHANGED <<num_rows, num_columns, row_entry_offsets, entries_to_add,
                 entries_to_remove, numFlushes>>
  /\ UNCHANGED cmOthers

QueueEntryRemoval(row, column) ==
  /\ row >= 0 /\ row < num_rows
  /\ column >= 0 /\ column < num_columns
  /\ numQueued < MaxQueued
  /\ numQueued' = numQueued + 1
  /\ entries_to_remove' =
       Append(entries_to_remove, [row |-> row, column |-> column])
  /\ lastOp' = "queue_remove"
  /\ flushed' = NoBatch
  /\ UNCHANGED <<num_rows, num_columns, entries, row_entry_offsets,
                 entries_to_add, numFlushes>>
  /\ UNCHANGED cmOthers

EntryQueuesAreEmpty == entries_to_add = <<>> /\ entries_to_remove = <<>>

FlushEntryQueues ==
  /\ lastOp' = "flush"
  /\ IF EntryQueuesAreEmpty
     THEN /\ flushed' = [NoBatch EXCEPT !.before = entries]
          /\ UNCHANGED <<entries, row_entry_offsets, entries_to_add,
                         entries_to_remove, numFlushes>>
     ELSE /\ numFlushes < MaxFlushes
          /\ \E o \in FlushOutcomes(entries, entries_to_add,
                                    entries_to_remove, num_rows) :
               /\ entries' = o.entries
               /\ row_entry_offsets' = o.offsets
          /\ entries_to_add' = <<>>
          /\ entries_to_remove' = <<>>
          /\ flushed' = [adds |-> entries_to_add, removes |-> entries_to_remove,
                         before |-> entries]
          /\ numFlushes' = numFlushes + 1
  /\ UNCHANGED <<num_rows, num_columns, numQueued>>
  /\ UNCHANGED cmOthers

CMNext ==
  \/ \E shape \in Shapes : Resize(shape[1], shape[2])
  \/ \E row \in 0..(num_rows - 1), column \in 0..(num_columns - 1),
        value \in AddValues : QueueEntryAddition(row, column, value)
  \/ \E row \in 0..(num_rows - 1), column \in 0..(num_columns - 1) :
        QueueEntryRemoval(row, column)
  \/ FlushEntryQueues

(***************************************************************************)
(* Claims about the coordinate matrix.                                     *)
(***************************************************************************)
AllKeys ==
  {[row |-> r, column |-> c] : r \in 0..(num_rows - 1), c \in 0..(num_columns - 1)}

KeysOf(es) == {Edge(es[i]) : i \in 1..Len(es)}

\* The value stored at key k, zero when no entry has that key.
Lookup(es, k) ==
  IF k \in KeysOf(es)
  THEN es[CHOOSE i \in 1..Len(es) : Edge(es[i]) = k].value
  ELSE 0

\* The values queued at key k, in queue order.
RECURSIVE QueuedAt(_, _)
QueuedAt(q, k) ==
  IF q = <<>> THEN <<>>
  ELSE (IF Edge(q[1]) = k THEN <<q[1].value>> ELSE <<>>) \o QueuedAt(Tail(q), k)

RECURSIVE FoldLeft(_)
FoldLeft(vals) ==
  IF vals = <<>> THEN 0
  ELSE IF Len(vals) = 1 THEN vals[1]
  ELSE RingAdd(FoldLeft(SubSeq(vals, 1, Len(vals) - 1)), vals[Len(vals)])

\* The sums of a sequence of values, taken left to right in any order.
FoldSums(vals) == {FoldLeft(a) : a \in Arrangements(vals)}

KeySeq(es) == [i \in 1..Len(es) |-> Edge(es[i])]

\* C1: after any sequence of Resize, QueueEntryAddition, QueueEntryRemoval and
\* FlushEntryQueues the entries are strictly ascending by (row, column), so
\* no two entries share a (row, column).
C1_EntriesStrictlySorted ==
  \A i \in 1..(Len(entries) - 1) : EntryLess(entries[i], entries[i + 1])

\* A flush of a batch queued out of order that left at least two entries.
C1_Witness ==
  /\ lastOp = "flush"
  /\ Len(entries) >= 2
  /\ \E i, j \in 1..Len(flushed.adds) :
       i < j /\ EntryLess(flushed.adds[j], flushed.adds[i])

\* C2: after any FlushEntryQueues the row offsets have length rows + 1, do
\* not decrease, end at the number of entries, and row_offsets[r] is the
\* position of the first entry whose row is at least r.
C2_RowOffsetsConsistent ==
  lastOp = "flush" =>
    /\ Len(row_entry_offsets) = num_rows + 1
    /\ \A r \in 1..num_rows : row_entry_offsets[r] <= row_entry_offsets[r + 1]
    /\ row_entry_offsets[num_rows + 1] = Len(entries)
    /\ \A r \in 0..num_rows :
         row_entry_offsets[r + 1] =
           Cardinality({i \in 1..Len(entries) : entries[i].row < r})

\* The same statement for a matrix that has rows: the default-constructed
\* matrix is the only one whose offsets FlushEntryQueues leaves unset.
C2_HoldsOnceResized ==
  (lastOp = "flush" /\ num_rows > 0) =>
    /\ Len(row_entry_offsets) = num_rows + 1
    /\ \A r \in 1..num_rows : row_entry_offsets[r] <= row_entry_offsets[r + 1]
    /\ row_entry_offsets[num_rows + 1] = Len(entries)
    /\ \A r \in 0..num_rows :
         row_entry_offsets[r + 1] =
           Cardinality({i \in 1..Len(entries) : entries[i].row < r})

\* C3: for every key not queued for removal, the value after the flush is
\* the value before it (zero if absent) plus the sum of the values queued at
\* that key, and the key has at most one entry.
C3_FlushSumsDuplicates ==
  lastOp = "flush" =>
    \A k \in AllKeys :
      k \notin SeqRange(flushed.removes) =>
        /\ Lookup(entries, k) \in
             {RingAdd(Lookup(flushed.before, k), s) :
                s \in FoldSums(QueuedAt(flushed.adds, k))}
        /\ Cardinality({i \in 1..Len(entries) : Edge(entries[i]) = k}) <= 1

\* A flush that added two queued values to a stored one.
C3_Witness ==
  /\ lastOp = "flush"
  /\ \E k \in AllKeys :
       /\ k \in KeysOf(flushed.before)
       /\ k \notin SeqRange(flushed.removes)
       /\ Len(QueuedAt(flushed.adds, k)) = 2
       /\ Lookup(entries, k) # Lookup(flushed.before, k)

BothQueues == KeysOf(flushed.adds) \cap SeqRange(flushed.removes)

\* C4, as claimed: additions are merged first and removals applied
\* afterwards, so a key in both queues of a batch is absent after the flush.
C4_Original ==
  lastOp = "flush" => \A k \in BothQueues : k \notin KeysOf(entries)

\* C4, amended: removals are applied first, to the stored entries, and the
\* additions are merged afterwards: a key in both queues of a batch is
\* present after the flush and holds the sum of the values queued at it.
C4_RemovalsBeforeAdditions ==
  lastOp = "flush" =>
    \A k \in BothQueues :
      /\ k \in KeysOf(entries)
      /\ Lookup(entries, k) \in FoldSums(QueuedAt(flushed.adds, k))

\* A flush whose batch added to and removed a key that was stored.
C4_Witness ==
  /\ lastOp = "flush"
  /\ \E k \in BothQueues : k \in KeysOf(flushed.before)

\* C5, as claimed: whatever the order in which the batch was queued, the
\* flush leaves the same entries and the same row offsets.
C5_Original ==
  (lastOp = "flush" /\ flushed.adds # <<>>) =>
    \A q \in Arrangements(flushed.adds) :
      \A o \in FlushOutcomes(flushed.before, q, flushed.removes, num_rows) :
        o = [entries |-> entries, offsets |-> row_entry_offsets]

NoKeyQueuedThrice(q) == \A k \in KeysOf(q) : Len(QueuedAt(q, k)) <= 2

\* C5, amended: whatever the order in which the batch was queued, the flush
\* leaves the same (row, column) sequence and the same row offsets, and the
\* same values when no key is queued more than twice in the batch.
C5_OrderIndependentKeys ==
  (lastOp = "flush" /\ flushed.adds # <<>>) =>
    \A q \in Arrangements(flushed.adds) :
      \A o \in FlushOutcomes(flushed.before, q, flushed.removes, num_rows) :
        /\ KeySeq(o.entries) = KeySeq(entries)
        /\ o.offsets = row_entry_offsets
        /\ NoKeyQueuedThrice(q) => o.entries = entries

\* A flush of a batch queued out of order with two different values at one key.
C5_Witness ==
  /\ lastOp = "flush"
  /\ NoKeyQueuedThrice(flushed.adds)
  /\ \E i, j \in 1..Len(flushed.adds) :
       /\ i # j
       /\ Edge(flushed.adds[i]) = Edge(flushed.adds[j])
       /\ flushed.adds[i].value # flushed.adds[j].value
  /\ \E i, j \in 1..Len(flushed.adds) :
       i < j /\ EntryLess(flushed.adds[j], flushed.adds[i])

\* The entries of es whose key is not in the set keys, in their order.
Without(es, keys) ==
  LET Kept(e) == Edge(e) \notin keys
  IN  SelectSeq(es, Kept)

\* C29: a flush with queued removals deletes exactly the entries whose
\* (row, column) is queued for removal; a queued removal of an absent key
\* changes nothing, and every other entry keeps its value and its place
\* relative to the others (the keys queued for addition in the same batch
\* set aside, and all of them when the batch has no additions).
C29_RemovalsDeleteExactlyQueuedKeys ==
  (lastOp = "flush" /\ flushed.removes # <<>>) =>
    /\ Without(entries, KeysOf(flushed.adds))
         = Without(flushed.before, KeysOf(flushed.removes) \cup KeysOf(flushed.adds))
    /\ flushed.adds = <<>> =>
         /\ entries = Without(flushed.before, KeysOf(flushed.removes))
         /\ KeysOf(flushed.removes) \cap KeysOf(flushed.before) = {}
               => entries = flushed.before

\* A flush without additions that removed one of two entries of a row and
\* kept the other.
C29_Witness ==
  /\ lastOp = "flush"
  /\ flushed.adds = <<>>
  /\ \E i, j \in 1..Len(flushed.before) :
       /\ flushed.before[i].row = flushed.before[j].row
       /\ Edge(flushed.before[i]) \in KeysOf(flushed.removes)
       /\ Edge(flushed.before[j]) \notin KeysOf(flushed.removes)
  /\ Len(entries) = Len(flushed.before) - 1

\* C30: QueueEntryAddition and QueueEntryRemoval leave the entries and the
\* row offsets as they are and lengthen one queue by one; the queued batch
\* is applied, and both queues emptied, by the next FlushEntryQueues.
C30_QueuesTakeEffectAtFlush ==
  [][/\ lastOp' \in {"queue_add", "queue_remove"} =>
          /\ entries' = entries
          /\ row_entry_offsets' = row_entry_offsets
          /\ Len(entries_to_add') + Len(entries_to_remove')
               = Len(entries_to_add) + Len(entries_to_remove) + 1
     /\ lastOp' = "flush" =>
          /\ entries_to_add' = <<>>
          /\ entries_to_remove' = <<>>
          /\ flushed'.adds = entries_to_add
          /\ flushed'.removes = entries_to_remove
          /\ flushed'.before = entries]_vars

\* An addition at a new key and a removal of a stored key are both queued
\* and neither has taken effect.
C30_Witness ==
  /\ lastOp \in {"queue_add", "queue_remove"}
  /\ entries # <<>>
  /\ \E i \in 1..Len(entries_to_add) : Edge(entries_to_add[i]) \notin KeysOf(entries)
  /\ \E i \in 1..Len(entries_to_remove) : entries_to_remove[i] \in KeysOf(entries)

(***************************************************************************)
(* The Field of the dense kernels: exact rationals <<numerator,            *)
(* denominator>> in lowest terms; std::sqrt rounds down to the             *)
(* denominator of its argument.                                            *)
(***************************************************************************)
RECURSIVE GCD(_, _)
GCD(a, b) == IF b = 0 THEN a ELSE GCD(b, a % b)

QNorm(n, d) ==
  LET g == GCD(Abs(n), Abs(d))
      s == IF d < 0 THEN -1 ELSE 1
  IN  <<(s * n) \div g, (s * d) \div g>>

\* The significand and exponent of a positive n / d in a binary format with
\* p significand bits: 2^(p - 1) <= n / (d * 2^e) < 2^p.
RECURSIVE FloatExponent(_, _, _, _)
FloatExponent(n, d, p, e) ==
  IF n >= d * 2^p THEN FloatExponent(n, 2 * d, p, e + 1)
  ELSE IF n < d * 2^(p - 1) THEN FloatExponent(2 * n, d, p, e - 1)
  ELSE [n |-> n, d |-> d, e |-> e]

\* Round-to-nearest-even of the scaled value, put back at its exponent.
FloatNearest(sign, scaled) ==
  LET q == scaled.n \div scaled.d
      r == scaled.n % scaled.d
      m == IF 2 * r < scaled.d THEN q
           ELSE IF 2 * r > scaled.d THEN q + 1
           ELSE IF q % 2 = 0 THEN q ELSE q + 1
  IN  IF scaled.e >= 0 THEN QNorm(sign * m * 2^scaled.e, 1)
      ELSE QNorm(sign * m, 2^(-scaled.e))

\* The result of an arithmetic operation of the Field: exact, or rounded to
\* 'precision' significand bits.
Fl(a) ==
  IF precision = 0 \/ a[1] = 0 THEN a
  ELSE FloatNearest(IF a[1] < 0 THEN -1 ELSE 1, FloatExponent(Abs(a[1]), a[2], precision, 0))

QInt(n) == <<n, 1>>
QAdd(a, b) == Fl(QNorm(a[1] * b[2] + b[1] * a[2], a[2] * b[2]))
QSub(a, b) == Fl(QNorm(a[1] * b[2] - b[1] * a[2], a[2] * b[2]))
QMul(a, b) == Fl(QNorm(a[1] * b[1], a[2] * b[2]))
QDiv(a, b) == Fl(QNorm(a[1] * b[2], a[2] * b[1]))
QLeq(a, b) == a[1] * b[2] <= b[1] * a[2]
QLess(a, b) == a[1] * b[2] < b[1] * a[2]

Isqrt(n) == CHOOSE r \in 0..n : r * r <= n /\ (r + 1) * (r + 1) > n

QSqrt(a) == QNorm(Isqrt(a[1] * a[2]), a[2])
SqrtIsExact(a) == Isqrt(a[1] * a[2]) * Isqrt(a[1] * a[2]) = a[1] * a[2]

\* The sum f[0] + ... + f[n - 1].
RECURSIVE QSum(_, _)
QSum(f, n) == IF n = 0 THEN QInt(0) ELSE QAdd(QSum(f, n - 1), f[n - 1])

(***************************************************************************)
(* Dense kernels.  A kernel works in place on the n x n view at (off, off) *)
(* of M and reads and writes its lower triangle only.  A result is the     *)
(* matrix left, the value returned, the regularization log and whether     *)
(* every square root taken was exact.                                      *)
(***************************************************************************)
KernelResult(M, ret, log, exact) ==
  [matrix |-> M, ret |-> ret, log |-> log, exact |-> exact]

\* Column i of the view: the diagonal becomes diag, the entries below it are
\* divided by divisor.
SolveColumn(M, off, n, i, diag, divisor) ==
  [r \in DOMAIN M |-> [c \in DOMAIN M |->
     IF c = off + i /\ r = off + i THEN diag
     ELSE IF c = off + i /\ r > off + i /\ r < off + n
          THEN QDiv(M[r][c], divisor)
          ELSE M[r][c]]]

\* The rank-one update of the columns after i: entry (k, j) loses
\* M(k, i) * eta with eta = scale * M(j, i).
RankOneUpdate(M, off, n, i, scale) ==
  [r \in DOMAIN M |-> [c \in DOMAIN M |->
     IF c > off + i /\ c < off + n /\ r >= c /\ r < off + n
     THEN QSub(M[r][c], QMul(M[r][off + i], QMul(scale, M[c][off + i])))
     ELSE M[r][c]]]

RECURSIVE UnblockedCholeskyLoop(_, _, _, _, _)
UnblockedCholeskyLoop(M, off, n, i, exact) ==
  IF i >= n THEN KernelResult(M, n, <<>>, exact)
  ELSE LET delta == M[off + i][off + i]
       IN  IF QLeq(delta, QInt(0)) THEN KernelResult(M, i, <<>>, exact)
           ELSE LET delta_sqrt == QSqrt(delta)
                    solved == SolveColumn(M, off, n, i, delta_sqrt, delta_sqrt)
                IN  UnblockedCholeskyLoop(
                      RankOneUpdate(solved, off, n, i, QInt(1)), off, n, i + 1,
                      exact /\ SqrtIsExact(delta))

UnblockedLowerCholeskyFactorization(M, off, n) ==
  UnblockedCholeskyLoop(M, off, n, 0, TRUE)

\* A regularized loop that shifts nothing: it stops at a non-positive pivot.
RECURSIVE UnblockedLoopWithoutShift(_, _, _, _, _, _, _, _)
UnblockedLoopWithoutShift(M, off, n, threshold, offset, i, log, exact) ==
  IF i >= n THEN KernelResult(M, n, log, exact)
  ELSE LET delta == M[off + i][off + i]
       IN  IF QLeq(delta, QInt(0)) THEN KernelResult(M, i, log, exact)
           ELSE LET delta_sqrt == QSqrt(delta)
                    solved == SolveColumn(M, off, n, i, delta_sqrt, delta_sqrt)
                IN  UnblockedLoopWithoutShift(
                      RankOneUpdate(solved, off, n, i, QInt(1)), off, n,
                      threshold, offset, i + 1, log,
                      exact /\ SqrtIsExact(delta))

\* A kernel that logs the permuted index.
UnpermutedIndex(index) ==
  index

\* The original index of the permuted index 'index':
\* dynamic_reg_params.inverse_permutation is null when the ordering has no
\* permutation.
OrigIndex(index) ==
  IF inverse_permutation = <<>> THEN index ELSE inverse_permutation[index + 1]

RECURSIVE UnblockedRegularizedLoop(_, _, _, _, _, _, _, _)
UnblockedRegularizedLoop(M, off, n, threshold, offset, i, log, exact) ==
  IF i >= n THEN KernelResult(M, n, log, exact)
  ELSE LET read == M[off + i][off + i]
       IN  IF QLeq(read, QInt(-threshold)) THEN KernelResult(M, i, log, exact)
           ELSE LET shift == QLess(read, QInt(threshold))
                    delta == IF shift THEN QInt(threshold) ELSE read
                    log1 == IF shift
                            THEN Append(log, <<OrigIndex(i + offset),
                                               QSub(QInt(threshold), read)>>)
                            ELSE log
                    delta_sqrt == QSqrt(delta)
                    solved == SolveColumn(M, off, n, i, delta_sqrt, delta_sqrt)
                IN  UnblockedRegularizedLoop(
                      RankOneUpdate(solved, off, n, i, QInt(1)), off, n,
                      threshold, offset, i + 1, log1,
                      exact /\ SqrtIsExact(delta))

UnblockedDynamicallyRegularizedLowerCholeskyFactorization(M, off, n, threshold, offset, log, exact) ==
  UnblockedRegularizedLoop(M, off, n, threshold, offset, 0, log, exact)

RECURSIVE UnblockedLDLLoop(_, _, _, _)
UnblockedLDLLoop(M, off, n, i) ==
  IF i >= n THEN KernelResult(M, n, <<>>, TRUE)
  ELSE LET delta == M[off + i][off + i]
       IN  IF delta = QInt(0) THEN KernelResult(M, i, <<>>, TRUE)
           ELSE UnblockedLDLLoop(
                  RankOneUpdate(SolveColumn(M, off, n, i, delta, delta),
                                off, n, i, delta),
                  off, n, i + 1)

LowerUnblockedLDLAdjointFactorization(M, off, n) == UnblockedLDLLoop(M, off, n, 0)

Min(a, b) == IF a < b THEN a ELSE b

\* RightLowerAdjointTriangularSolves and its unit-diagonal form: the panel
\* B below the bsize x bsize triangle L at (i, i) becomes B inv(L)^H, column
\* by column; 'unit' takes the diagonal of L to be one.
RECURSIVE TriangularSolveLoop(_, _, _, _, _, _)
TriangularSolveLoop(M, i, bsize, h, j, unit) ==
  IF j >= bsize THEN M
  ELSE LET numer(r) ==
             QSub(M[r][i + j],
                  QSum([l \in 0..(j - 1) |-> QMul(M[r][i + l], M[i + j][i + l])], j))
           solved ==
             [r \in DOMAIN M |-> [c \in DOMAIN M |->
                IF c = i + j /\ r >= i + bsize /\ r < h
                THEN IF unit THEN numer(r) ELSE QDiv(numer(r), M[i + j][i + j])
                ELSE M[r][c]]]
       IN  TriangularSolveLoop(solved, i, bsize, h, j + 1, unit)

RightLowerAdjointTriangularSolves(M, i, bsize, h) ==
  TriangularSolveLoop(M, i, bsize, h, 0, FALSE)

RightLowerAdjointUnitTriangularSolves(M, i, bsize, h) ==
  TriangularSolveLoop(M, i, bsize, h, 0, TRUE)

\* MatrixMultiplyLowerNormalTranspose(-1, B, F, 1, &C): the lower triangle of
\* the trailing matrix C loses B F^T, B the panel of M and F that of factor.
MatrixMultiplyLowerNormalTranspose(M, factor, i, bsize, h) ==
  [r \in DOMAIN M |-> [c \in DOMAIN M |->
     IF c >= i + bsize /\ r >= c /\ r < h
     THEN QSub(M[r][c],
               QSum([l \in 0..(bsize - 1) |-> QMul(M[r][i + l], factor[c][i + l])],
                    bsize))
     ELSE M[r][c]]]

\* LowerNormalHermitianOuterProduct(-1, B, 1, &C): C loses B B^H.
LowerNormalHermitianOuterProduct(M, i, bsize, h) ==
  MatrixMultiplyLowerNormalTranspose(M, M, i, bsize, h)

\* A blocked loop that returns the pivot count of the failed diagonal block
\* without the offset of the block.
RECURSIVE BlockedLoopLocalPivots(_, _, _, _, _)
BlockedLoopLocalPivots(M, h, bs, i, exact) ==
  IF i >= h THEN KernelResult(M, h, <<>>, exact)
  ELSE LET bsize == Min(h - i, bs)
           diag == UnblockedLowerCholeskyFactorization(M, i, bsize)
       IN  IF diag.ret < bsize
           THEN KernelResult(diag.matrix, diag.ret, <<>>, exact /\ diag.exact)
           ELSE IF h = i + bsize
           THEN KernelResult(diag.matrix, h, <<>>, exact /\ diag.exact)
           ELSE BlockedLoopLocalPivots(
                  LowerNormalHermitianOuterProduct(
                    RightLowerAdjointTriangularSolves(diag.matrix, i, bsize, h),
                    i, bsize, h),
                  h, bs, i + bs, exact /\ diag.exact)

RECURSIVE BlockedCholeskyLoop(_, _, _, _, _)
BlockedCholeskyLoop(M, h, bs, i, exact) ==
  IF i >= h THEN KernelResult(M, h, <<>>, exact)
  ELSE LET bsize == Min(h - i, bs)
           diag == UnblockedLowerCholeskyFactorization(M, i, bsize)
       IN  IF diag.ret < bsize
           THEN KernelResult(diag.matrix, i + diag.ret, <<>>, exact /\ diag.exact)
           ELSE IF h = i + bsize
           THEN KernelResult(diag.matrix, h, <<>>, exact /\ diag.exact)
           ELSE BlockedCholeskyLoop(
                  LowerNormalHermitianOuterProduct(
                    RightLowerAdjointTriangularSolves(diag.matrix, i, bsize, h),
                    i, bsize, h),
                  h, bs, i + bs, exact /\ diag.exact)

BlockedLowerCholeskyFactorization(bs, M, h) == BlockedCholeskyLoop(M, h, bs, 0, TRUE)

RECURSIVE BlockedRegularizedLoop(_, _, _, _, _, _, _, _)
BlockedRegularizedLoop(M, h, bs, threshold, offset, i, log, exact) ==
  IF i >= h THEN KernelResult(M, h, log, exact)
  ELSE LET bsize == Min(h - i, bs)
           diag == UnblockedDynamicallyRegularizedLowerCholeskyFactorization(
                     M, i, bsize, threshold, offset + i, log, exact)
       IN  IF diag.ret < bsize
           THEN KernelResult(diag.matrix, i + diag.ret, diag.log, diag.exact)
           ELSE IF h = i + bsize
           THEN KernelResult(diag.matrix, h, diag.log, diag.exact)
           ELSE BlockedRegularizedLoop(
                  LowerNormalHermitianOuterProduct(
                    RightLowerAdjointTriangularSolves(diag.matrix, i, bsize, h),
                    i, bsize, h),
                  h, bs, threshold, offset, i + bs, diag.log, diag.exact)

BlockedDynamicallyRegularizedLowerCholeskyFactorization(bs, threshold, offset, M, h, log) ==
  BlockedRegularizedLoop(M, h, bs, threshold, offset, 0, log, TRUE)

\* The panel of L: each column of the solved panel divided by its pivot.
SolveAgainstDiagonal(M, i, bsize, h) ==
  [r \in DOMAIN M |-> [c \in DOMAIN M |->
     IF c >= i /\ c < i + bsize /\ r >= i + bsize /\ r < h
     THEN QDiv(M[r][c], M[c][c])
     ELSE M[r][c]]]

RECURSIVE BlockedLDLLoop(_, _, _, _)
BlockedLDLLoop(M, h, bs, i) ==
  IF i >= h THEN KernelResult(M, h, <<>>, TRUE)
  ELSE LET bsize == Min(h - i, bs)
           diag == LowerUnblockedLDLAdjointFactorization(M, i, bsize)
       IN  IF diag.ret < bsize
           THEN KernelResult(diag.matrix, i + diag.ret, <<>>, TRUE)
           ELSE IF h = i + bsize
           THEN KernelResult(diag.matrix, h, <<>>, TRUE)
           ELSE LET factor == RightLowerAdjointUnitTriangularSolves(
                                diag.matrix, i, bsize, h)
                    subdiagonal == SolveAgainstDiagonal(factor, i, bsize, h)
                IN  BlockedLDLLoop(
                      MatrixMultiplyLowerNormalTranspose(subdiagonal, factor,
                                                         i, bsize, h),
                      h, bs, i + bs)

LowerBlockedLDLAdjointFactorization(bs, M, h) == BlockedLDLLoop(M, h, bs, 0)

(***************************************************************************)
(* Calls of the dense kernels on Hermitian inputs.                         *)
(***************************************************************************)
\* The entries of the inputs: diagonal and off-diagonal.
DiagValues == {0, 3, 4}
OffValues == {0, 4}
\* The values of dynamic_reg_params.positive_threshold.
Thresholds == {1, 4}

StrictLower(h) == {rc \in (0..(h - 1)) \X (0..(h - 1)) : rc[2] < rc[1]}

HermitianInputs(h) ==
  {[r \in 0..(h - 1) |-> [c \in 0..(h - 1) |->
      IF r = c THEN d[r] ELSE IF c < r THEN o[<<r, c>>] ELSE o[<<c, r>>]]] :
     d \in [0..(h - 1) -> DiagValues], o \in [StrictLower(h) -> OffValues]}

ToField(A) == [r \in DOMAIN A |-> [c \in DOMAIN A |-> QInt(A[r][c])]]

NoMatrix == [r \in {} |-> 0]

DKIdle ==
  /\ input = NoMatrix
  /\ matrix = NoMatrix
  /\ height = 0
  /\ block_size = 0
  /\ positive_threshold = 0
  /\ kernel = "idle"
  /\ returned = -1
  /\ dynamic_regularization = <<>>
  /\ sqrt_exact = TRUE

DKInit ==
  /\ height \in 1..MaxHeight
  /\ input \in HermitianInputs(height)
  /\ matrix = ToField(input)
  /\ positive_threshold \in Thresholds
  /\ block_size = 0
  /\ kernel = "none"
  /\ returned = -1
  /\ dynamic_regularization = <<>>
  /\ sqrt_exact = TRUE

\* One call of a kernel on the matrix: 'result' is what the kernel leaves.
Call(name, bs, result) ==
  /\ kernel = "none"
  /\ kernel' = name
  /\ block_size' = bs
  /\ matrix' = result.matrix
  /\ returned' = result.ret
  /\ dynamic_regularization' = result.log
  /\ sqrt_exact' = result.exact
  /\ UNCHANGED <<input, height, positive_threshold>>
  /\ UNCHANGED dkOthers

CallUnblockedCholesky ==
  Call("UnblockedLowerCholeskyFactorization", 0,
       UnblockedLowerCholeskyFactorization(matrix, 0, height))

CallBlockedCholesky(bs) ==
  Call("BlockedLowerCholeskyFactorization", bs,
       BlockedLowerCholeskyFactorization(bs, matrix, height))

CallUnblockedLDL ==
  Call("LowerUnblockedLDLAdjointFactorization", 0,
       LowerUnblockedLDLAdjointFactorization(matrix, 0, height))

CallBlockedLDL(bs) ==
  Call("LowerBlockedLDLAdjointFactorization", bs,
       LowerBlockedLDLAdjointFactorization(bs, matrix, height))

CallUnblockedRegularizedCholesky ==
  Call("UnblockedDynamicallyRegularizedLowerCholeskyFactorization", 0,
       UnblockedDynamicallyRegularizedLowerCholeskyFactorization(
         matrix, 0, height, positive_threshold, 0, <<>>, TRUE))

CallBlockedRegularizedCholesky(bs) ==
  Call("BlockedDynamicallyRegularizedLowerCholeskyFactorization", bs,
       BlockedDynamicallyRegularizedLowerCholeskyFactorization(
         bs, positive_threshold, 0, matrix, height, <<>>))

DKNext ==
  \/ CallUnblockedCholesky
  \/ \E bs \in 1..MaxBlockSize : CallBlockedCholesky(bs)
  \/ CallUnblockedLDL
  \/ \E bs \in 1..MaxBlockSize : CallBlockedLDL(bs)
  \/ CallUnblockedRegularizedCholesky
  \/ \E bs \in 1..MaxBlockSize : CallBlockedRegularizedCholesky(bs)

(***************************************************************************)
(* Claims about the dense kernels.                                         *)
(***************************************************************************)
RemoveAt(seq, i) == SubSeq(seq, 1, i - 1) \o SubSeq(seq, i + 1, Len(seq))

\* The determinant of the rows rs and columns cs of the integer matrix A,
\* expanded along its first row.
RECURSIVE Det(_, _, _)
RECURSIVE DetExpand(_, _, _, _)
DetExpand(A, rs, cs, c) ==
  IF c = 0 THEN 0
  ELSE DetExpand(A, rs, cs, c - 1)
       + (IF c % 2 = 1 THEN 1 ELSE -1) * A[rs[1]][cs[c]]
         * Det(A, Tail(rs), RemoveAt(cs, c))

Det(A, rs, cs) == IF rs = <<>> THEN 1 ELSE DetExpand(A, rs, cs, Len(cs))

LeadingMinor(A, k) == Det(A, [i \in 1..k |-> i - 1], [i \in 1..k |-> i - 1])

RECURSIVE Ascending(_)
Ascending(S) ==
  IF S = {} THEN <<>>
  ELSE LET m == CHOOSE x \in S : \A y \in S : x <= y
       IN  <<m>> \o Ascending(S \ {m})

\* Every principal minor is non-negative.
PositiveSemiDefinite(A) ==
  \A S \in SUBSET DOMAIN A : Det(A, Ascending(S), Ascending(S)) >= 0

\* Every eigenvalue exceeds -shift: A + shift I is positive definite.
EigenvaluesAbove(A, shift) ==
  LET B == [r \in DOMAIN A |-> [c \in DOMAIN A |->
              IF r = c THEN A[r][c] + shift ELSE A[r][c]]]
  IN  \A k \in 1..height : LeadingMinor(B, k) > 0

\* The diagonal entry of column k after the updates of the factor columns
\* before it: the input's entry less the squares of row k of the factor.
UpdatedDiagonal(k) ==
  QSub(QInt(input[k][k]),
       QSum([j \in 0..(k - 1) |-> QMul(matrix[k][j], matrix[k][j])], k))

\* The pivot of column k in exact arithmetic: the ratio of the leading
\* principal minors of orders k + 1 and k.
ExactPivot(k) == QNorm(LeadingMinor(input, k + 1), LeadingMinor(input, k))

FirstNonPositiveMinor ==
  IF \E k \in 0..(height - 1) : LeadingMinor(input, k + 1) <= 0
  THEN CHOOSE k \in 0..(height - 1) :
         /\ LeadingMinor(input, k + 1) <= 0
         /\ \A j \in 0..(k - 1) : LeadingMinor(input, j + 1) > 0
  ELSE height

FirstZeroMinor ==
  IF \E k \in 0..(height - 1) : LeadingMinor(input, k + 1) = 0
  THEN CHOOSE k \in 0..(height - 1) :
         /\ LeadingMinor(input, k + 1) = 0
         /\ \A j \in 0..(k - 1) : LeadingMinor(input, j + 1) # 0
  ELSE height

CholeskyKernels ==
  {"UnblockedLowerCholeskyFactorization", "BlockedLowerCholeskyFactorization"}
LDLKernels ==
  {"LowerUnblockedLDLAdjointFactorization", "LowerBlockedLDLAdjointFactorization"}
RegularizedKernels ==
  {"UnblockedDynamicallyRegularizedLowerCholeskyFactorization",
   "BlockedDynamicallyRegularizedLowerCholeskyFactorization"}
BlockedKernels ==
  {"BlockedLowerCholeskyFactorization", "LowerBlockedLDLAdjointFactorization",
   "BlockedDynamicallyRegularizedLowerCholeskyFactorization"}

\* C8: a Cholesky kernel, unblocked or blocked with any block size, returns
\* the first column whose updated diagonal entry is not positive, and an
\* LDL kernel the first column whose updated diagonal entry is zero; each
\* returns the height when there is no such column.  Every column before
\* the returned one has a positive (Cholesky) or nonzero (LDL) pivot.
C8_KernelsReturnFirstFailedPivot ==
  /\ kernel \in CholeskyKernels =>
       /\ returned \in 0..height
       /\ \A k \in 0..(returned - 1) :
            /\ QLess(QInt(0), UpdatedDiagonal(k))
            /\ matrix[k][k] = QSqrt(UpdatedDiagonal(k))
       /\ returned < height =>
            /\ QLeq(UpdatedDiagonal(returned), QInt(0))
            /\ matrix[returned][returned] = UpdatedDiagonal(returned)
       /\ sqrt_exact => returned = FirstNonPositiveMinor
  /\ kernel \in LDLKernels =>
       /\ returned = FirstZeroMinor
       /\ \A k \in 0..Min(returned, height - 1) : matrix[k][k] = ExactPivot(k)

\* A blocked kernel that stopped in a block after the first.
C8_Witness ==
  /\ kernel \in {"BlockedLowerCholeskyFactorization",
                 "LowerBlockedLDLAdjointFactorization"}
  /\ block_size < height
  /\ returned >= block_size
  /\ returned < height
  /\ \E r \in 0..(height - 1) : \E c \in 0..(r - 1) : input[r][c] # 0

\* C7, as claimed: with dynamic regularization the kernel returns the full
\* height for every positive semi-definite input and for every input whose
\* eigenvalues all exceed minus the threshold.
C7_Original ==
  (/\ kernel \in RegularizedKernels
   /\ sqrt_exact
   /\ \/ PositiveSemiDefinite(input)
      \/ EigenvaluesAbove(input, positive_threshold))
  => returned = height

\* C7, amended: a dynamically regularized kernel stops, returning the column
\* index, at the first column whose updated diagonal entry is at most minus
\* the positive threshold, and returns the full height exactly when there is
\* no such column; an entry below the threshold is replaced by the
\* threshold.  In exact arithmetic it completes for every positive
\* semi-definite input.
C7_RegularizedStopsBelowThreshold ==
  kernel \in RegularizedKernels =>
    /\ returned \in 0..height
    /\ \A k \in 0..(returned - 1) :
         /\ QLess(QInt(-positive_threshold), UpdatedDiagonal(k))
         /\ matrix[k][k] =
              QSqrt(IF QLess(UpdatedDiagonal(k), QInt(positive_threshold))
                    THEN QInt(positive_threshold)
                    ELSE UpdatedDiagonal(k))
    /\ returned < height =>
         QLeq(UpdatedDiagonal(returned), QInt(-positive_threshold))
    /\ (sqrt_exact /\ PositiveSemiDefinite(input)) => returned = height

\* A regularized kernel completed after shifting a negative pivot.
C7_Witness ==
  /\ kernel \in RegularizedKernels
  /\ returned = height
  /\ dynamic_regularization # <<>>
  /\ \E k \in 0..(height - 1) : QLess(UpdatedDiagonal(k), QInt(0))

\* C15, as claimed: every shift in the dynamic-regularization log has
\* magnitude at most the threshold.
C15_Original ==
  kernel \in RegularizedKernels =>
    \A e \in 1..Len(dynamic_regularization) :
      /\ QLeq(dynamic_regularization[e][2], QInt(positive_threshold))
      /\ QLeq(QInt(-positive_threshold), dynamic_regularization[e][2])

\* C15, amended: the log holds, in increasing order, exactly the factored
\* columns whose updated pivot lay strictly between minus the threshold and
\* the threshold; each was raised to plus the threshold, so its shift is
\* the threshold less the pivot: positive, below twice the threshold, and
\* at most the threshold exactly when the pivot was not negative.
C15_ShiftsBelowTwiceThreshold ==
  kernel \in RegularizedKernels =>
    /\ \A e \in 1..Len(dynamic_regularization) :
         LET k == dynamic_regularization[e][1]
             shift == dynamic_regularization[e][2]
         IN  /\ k \in 0..(returned - 1)
             /\ QLess(QInt(-positive_threshold), UpdatedDiagonal(k))
             /\ QLess(UpdatedDiagonal(k), QInt(positive_threshold))
             /\ shift = QSub(QInt(positive_threshold), UpdatedDiagonal(k))
             /\ QLess(QInt(0), shift)
             /\ QLess(shift, QInt(2 * positive_threshold))
             /\ QLeq(shift, QInt(positive_threshold))
                  <=> QLeq(QInt(0), UpdatedDiagonal(k))
             /\ matrix[k][k] = QSqrt(QInt(positive_threshold))
             /\ \A f \in 1..(e - 1) : dynamic_regularization[f][1] < k
    /\ \A k \in 0..(returned - 1) :
         QLess(UpdatedDiagonal(k), QInt(positive_threshold))
           => \E e \in 1..Len(dynamic_regularization) :
                dynamic_regularization[e][1] = k

\* A regularized kernel logged a shift larger than the threshold and one
\* that is not.
C15_Witness ==
  /\ kernel \in RegularizedKernels
  /\ \E e \in 1..Len(dynamic_regularization) :
       QLess(QInt(positive_threshold), dynamic_regularization[e][2])
  /\ \E e \in 1..Len(dynamic_regularization) :
       QLess(dynamic_regularization[e][2], QInt(positive_threshold))

(***************************************************************************)
(* The supernodal drivers' pivot accounting.  Supernodes are numbered in a *)
(* postorder of the assembly forest, so a parent follows its children.     *)
(***************************************************************************)
DRIdle ==
  /\ num_supernodes = 0
  /\ assembly_parents = <<>>
  /\ supernode_sizes = <<>>
  /\ supernode_pivots = <<>>
  /\ driver = "idle"
  /\ num_successful_pivots = 0

\* The parent arrays of the postordered forests on n supernodes: a parent
\* follows its child, and the supernodes between them are its descendants.
\* Supernode s is index s + 1 of the sequences.
PostorderedForests(n) ==
  {p \in [1..n -> -1..(n - 1)] :
     \A s \in 0..(n - 1) :
       \/ p[s + 1] = -1
       \/ /\ p[s + 1] > s
          /\ \A t \in (s + 1)..(p[s + 1] - 1) :
               p[t + 1] # -1 /\ p[t + 1] <= p[s + 1]}

DRInit ==
  /\ num_supernodes \in 1..MaxSupernodes
  /\ assembly_parents \in PostorderedForests(num_supernodes)
  /\ supernode_sizes \in [1..num_supernodes -> 1..MaxSupernodeSize]
  /\ supernode_pivots \in
       {k \in [1..num_supernodes -> 0..MaxSupernodeSize] :
          \A s \in 1..num_supernodes : k[s] <= supernode_sizes[s]}
  /\ driver = "none"
  /\ num_successful_pivots = 0

\* ordering_.supernode_offsets: the first column of supernode s.
RECURSIVE SupernodeOffset(_)
SupernodeOffset(s) ==
  IF s = 0 THEN 0 ELSE SupernodeOffset(s - 1) + supernode_sizes[s]

\* assembly_forest.children of a supernode and assembly_forest.roots, in
\* ascending order.
Children(s) == Ascending({c \in 0..(num_supernodes - 1) : assembly_parents[c + 1] = s})
Roots == Ascending({c \in 0..(num_supernodes - 1) : assembly_parents[c + 1] = -1})

\* FactorDiagonalBlock followed by the accounting of the Finalize routines:
\* the pivots of the supernode are added to the result, and the supernode
\* succeeded when all of its columns were pivots.
SupernodeFinalize(s, result) ==
  [succeeded |-> supernode_pivots[s + 1] = supernode_sizes[s + 1],
   num_successful_pivots |-> result + supernode_pivots[s + 1]]

\* MergeContribution over the subtree results, stopping at the first
\* subtree that failed.
RECURSIVE MergeContributions(_, _, _)
MergeContributions(contributions, index, result) ==
  IF index > Len(contributions) THEN [succeeded |-> TRUE, num_successful_pivots |-> result]
  ELSE IF ~contributions[index].succeeded
  THEN [succeeded |-> FALSE, num_successful_pivots |-> result]
  ELSE MergeContributions(contributions, index + 1,
                          result + contributions[index].num_successful_pivots)

RECURSIVE RightLookingSubtree(_)
RightLookingSubtree(s) ==
  LET kids == Children(s)
      merged == MergeContributions(
                  [index \in 1..Len(kids) |-> RightLookingSubtree(kids[index])], 1, 0)
  IN  IF merged.succeeded
      THEN SupernodeFinalize(s, merged.num_successful_pivots)
      ELSE merged

RightLookingResult ==
  MergeContributions([index \in 1..Len(Roots) |-> RightLookingSubtree(Roots[index])],
                     1, 0).num_successful_pivots

RECURSIVE LeftLookingLoop(_, _)
LeftLookingLoop(s, result) ==
  IF s >= num_supernodes THEN result
  ELSE LET finalized == SupernodeFinalize(s, result)
       IN  IF ~finalized.succeeded THEN finalized.num_successful_pivots
           ELSE LeftLookingLoop(s + 1, finalized.num_successful_pivots)

RightLooking ==
  /\ driver = "none"
  /\ driver' = "RightLooking"
  /\ num_successful_pivots' = RightLookingResult
  /\ UNCHANGED <<num_supernodes, assembly_parents, supernode_sizes, supernode_pivots>>
  /\ UNCHANGED drOthers

LeftLooking ==
  /\ driver = "none"
  /\ driver' = "LeftLooking"
  /\ num_successful_pivots' = LeftLookingLoop(0, 0)
  /\ UNCHANGED <<num_supernodes, assembly_parents, supernode_sizes, supernode_pivots>>
  /\ UNCHANGED drOthers

DRNext == RightLooking \/ LeftLooking

(***************************************************************************)
(* Claims about the supernodal drivers.                                    *)
(***************************************************************************)
FailedSupernodes ==
  {s \in 0..(num_supernodes - 1) : supernode_pivots[s + 1] < supernode_sizes[s + 1]}

NumColumns == SupernodeOffset(num_supernodes)

\* The first column, in the permuted ordering, whose pivot fails: every
\* supernode before the first failing one has all of its descendants before
\* it, so it is factored and succeeds.
FirstFailedColumn ==
  IF FailedSupernodes = {} THEN NumColumns
  ELSE LET s == CHOOSE t \in FailedSupernodes : \A u \in FailedSupernodes : t <= u
       IN  SupernodeOffset(s) + supernode_pivots[s + 1]

\* C6: the pivot count returned by a supernodal driver, left-looking or
\* right-looking, is the index of the first column whose pivot failed, less
\* than n, when the factorization failed, and n exactly when it succeeded.
C6_PivotCountIsFirstFailedColumn ==
  driver \in {"LeftLooking", "RightLooking"} =>
    /\ num_successful_pivots = FirstFailedColumn
    /\ num_successful_pivots = NumColumns <=> FailedSupernodes = {}

\* The left-looking driver returns the first failed column.
C6_LeftLookingHolds ==
  driver = "LeftLooking" => num_successful_pivots = FirstFailedColumn

\* The right-looking driver returns n exactly on success, and on failure a
\* count that does not exceed the first failed column.
C6_RightLookingBound ==
  driver = "RightLooking" =>
    /\ num_successful_pivots <= FirstFailedColumn
    /\ num_successful_pivots = NumColumns <=> FailedSupernodes = {}

(***************************************************************************)
(* The elimination forest of a flushed coordinate matrix with a symmetric  *)
(* pattern.  Index i of the program's arrays is index i + 1 of the         *)
(* sequences.                                                              *)
(***************************************************************************)
EFIdle ==
  /\ permutation = <<>>
  /\ inverse_permutation = <<>>
  /\ parents = <<>>
  /\ degrees = <<>>
  /\ forest_call = "idle"

\* The entries of the n x n matrix with a full diagonal and the strictly
\* lower positions S, mirrored.
SymmetricEntries(n, S) ==
  LET edges == {[row |-> i, column |-> i] : i \in 0..(n - 1)}
               \cup {[row |-> rc[1], column |-> rc[2]] : rc \in S}
               \cup {[row |-> rc[2], column |-> rc[1]] : rc \in S}
      sorted == SortedEdges(edges)
  IN  [i \in 1..Len(sorted) |->
         [row |-> sorted[i].row, column |-> sorted[i].column, value |-> 1]]

\* ordering.permutation: empty, or the new index of each original index.
Orderings(n) == {<<>>} \cup {[i \in 1..n |-> p[i] - 1] : p \in PermsOf(n)}

InverseOf(perm) ==
  [i \in 1..Len(perm) |-> (CHOOSE j \in 1..Len(perm) : perm[j] = i - 1) - 1]

EFInit ==
  /\ num_rows \in 1..MaxRows
  /\ num_columns = num_rows
  /\ entries \in {SymmetricEntries(num_rows, S) : S \in SUBSET StrictLower(num_rows)}
  /\ row_entry_offsets = UpdateRowEntryOffsets(entries, num_rows)
  /\ entries_to_add = <<>>
  /\ entries_to_remove = <<>>
  /\ lastOp = "flush"
  /\ flushed = NoBatch
  /\ numFlushes = 0
  /\ numQueued = 0
  /\ permutation \in Orderings(num_rows)
  /\ inverse_permutation = InverseOf(permutation)
  /\ parents = <<>>
  /\ degrees = <<>>
  /\ forest_call = "none"

\* A walk that sets the parent of every index it meets, set or not.
RECURSIVE ForestWalkOverwrite(_, _, _)
ForestWalkOverwrite(column, row, st) ==
  IF st.pattern_flags[column + 1] = row THEN st
  ELSE LET marked == [st EXCEPT !.pattern_flags[column + 1] = row,
                                !.degrees[column + 1] = @ + 1,
                                !.parents[column + 1] = row]
       IN  ForestWalkOverwrite(marked.parents[column + 1], row, marked)

\* A walk that stops after its first index instead of climbing.
ForestWalkOneStep(column, row, st) ==
  IF st.pattern_flags[column + 1] = row THEN st
  ELSE LET marked == [st EXCEPT !.pattern_flags[column + 1] = row,
                                !.degrees[column + 1] = @ + 1]
       IN  IF marked.parents[column + 1] = -1
           THEN [marked EXCEPT !.parents[column + 1] = row]
           ELSE marked

\* The while loop: walk from 'column' up the forest built so far until an
\* index already marked for 'row'.
RECURSIVE ForestWalk(_, _, _)
ForestWalk(column, row, st) ==
  IF st.pattern_flags[column + 1] = row THEN st
  ELSE LET marked == [st EXCEPT !.pattern_flags[column + 1] = row,
                                !.degrees[column + 1] = @ + 1]
           linked == IF marked.parents[column + 1] = -1
                     THEN [marked EXCEPT !.parents[column + 1] = row]
                     ELSE marked
       IN  ForestWalk(linked.parents[column + 1], row, linked)

\* The loop over the entries of one row of the original matrix.
RECURSIVE ForestEntryLoop(_, _, _, _)
ForestEntryLoop(row, index, row_end, st) ==
  IF index >= row_end THEN st
  ELSE LET have_permutation == permutation # <<>>
           entry == entries[index + 1]
           column == IF have_permutation
                     THEN permutation[entry.column + 1]
                     ELSE entry.column
       IN  IF column >= row
           THEN IF have_permutation
                THEN ForestEntryLoop(row, index + 1, row_end, st)
                ELSE st
           ELSE ForestEntryLoop(row, index + 1, row_end,
                                ForestWalk(column, row, st))

RECURSIVE ForestRowLoop(_, _)
ForestRowLoop(row, st) ==
  IF row >= num_rows THEN st
  ELSE LET orig_row == IF permutation # <<>>
                       THEN inverse_permutation[row + 1]
                       ELSE row
       IN  ForestRowLoop(row + 1,
             ForestEntryLoop(row, row_entry_offsets[orig_row + 1],
                             row_entry_offsets[orig_row + 2],
                             [st EXCEPT !.pattern_flags[row + 1] = row]))

EliminationForestAndDegrees ==
  /\ forest_call = "none"
  /\ LET result == ForestRowLoop(0,
                     [parents |-> [i \in 1..num_rows |-> -1],
                      degrees |-> [i \in 1..num_rows |-> 0],
                      pattern_flags |-> [i \in 1..num_rows |-> 0]])
     IN  /\ parents' = result.parents
         /\ degrees' = result.degrees
  /\ forest_call' = "done"
  /\ UNCHANGED <<permutation, inverse_permutation>>
  /\ UNCHANGED efOthers

EFNext == EliminationForestAndDegrees

(***************************************************************************)
(* Claims about the elimination forest.                                    *)
(***************************************************************************)
Permuted(i) == IF permutation = <<>> THEN i ELSE permutation[i + 1]

\* The strictly lower positions <<i, j>>, j < i, of the permuted matrix.
PermutedLower ==
  {<<Permuted(entries[k].row), Permuted(entries[k].column)>> :
     k \in {l \in 1..Len(entries) :
              Permuted(entries[l].column) < Permuted(entries[l].row)}}

\* Symbolic fill: eliminating column j joins every two rows of its
\* structure.
RECURSIVE SymbolicFill(_, _)
SymbolicFill(j, E) ==
  IF j >= num_rows THEN E
  ELSE LET structure == {i \in 0..(num_rows - 1) : <<i, j>> \in E}
       IN  SymbolicFill(j + 1,
             E \cup {pair \in structure \X structure : pair[1] > pair[2]})

\* The rows below the diagonal of column j of the filled pattern.
FilledStructure(filled, j) == {i \in 0..(num_rows - 1) : <<i, j>> \in filled}

\* The indices on the parent path from j, j excluded.
RECURSIVE Ancestors(_, _)
Ancestors(j, fuel) ==
  IF fuel = 0 \/ parents[j + 1] = -1 THEN {}
  ELSE {parents[j + 1]} \cup Ancestors(parents[j + 1], fuel - 1)

\* C9: parent[j] is the smallest row index i > j with L[i, j] structurally
\* nonzero after symbolic fill of the permuted matrix, and -1 when column j
\* of L has no such row.
C9_ParentIsFirstFilledRow ==
  forest_call = "done" =>
    LET filled == SymbolicFill(0, PermutedLower)
    IN  \A j \in 0..(num_rows - 1) :
          parents[j + 1] =
            IF FilledStructure(filled, j) = {} THEN -1
            ELSE CHOOSE i \in FilledStructure(filled, j) :
                   \A k \in FilledStructure(filled, j) : i <= k

\* A forest with an edge that exists only because of fill, under a
\* permutation that moves an index.
C9_Witness ==
  /\ forest_call = "done"
  /\ \E i \in 1..Len(permutation) : permutation[i] # i - 1
  /\ \E j \in 0..(num_rows - 1) :
       parents[j + 1] # -1 /\ <<parents[j + 1], j>> \notin PermutedLower

\* C10: for every off-diagonal nonzero (i, j), j < i, of the permuted
\* matrix, i lies on the parent path from j to a root.
C10_NonzeroRowsAreAncestors ==
  forest_call = "done" =>
    \A ij \in PermutedLower : ij[1] \in Ancestors(ij[2], num_rows)

\* A nonzero whose row is an ancestor of its column but not its parent.
C10_Witness ==
  /\ forest_call = "done"
  /\ \E ij \in PermutedLower :
       /\ parents[ij[2] + 1] # ij[1]
       /\ ij[1] \in Ancestors(ij[2], num_rows)

(***************************************************************************)
(* The symbolic analysis of the supernodal factorization, on the same      *)
(* matrices and orderings as the elimination forest.                       *)
(***************************************************************************)
\* The defaults of SupernodalRelaxationControl.
DefaultRelaxationControl ==
  [relax_supernodes |-> FALSE, allowable_supernode_zeros |-> 128,
   allowable_supernode_zero_ratio |-> <<1, 100>>]

SNEmpty ==
  /\ scalar_structure = [column_offsets |-> <<>>, indices |-> <<>>]
  /\ orig_supernode_sizes = <<>>
  /\ relaxation_control = DefaultRelaxationControl
  /\ relaxed = <<>>
  /\ lower_factor = <<>>

SNIdle == SNEmpty /\ analysis = "idle"

SNInit == SNEmpty /\ analysis = "none"

\* OffsetScan: the exclusive prefix sums of the sizes, with the total last.
RECURSIVE PrefixSum(_, _)
PrefixSum(sizes, k) == IF k = 0 THEN 0 ELSE PrefixSum(sizes, k - 1) + sizes[k]

OffsetScan(sizes) == [i \in 1..(Len(sizes) + 1) |-> PrefixSum(sizes, i - 1)]

\* The forest and degrees EliminationForestAndDegrees computes.
ScalarForest ==
  ForestRowLoop(0, [parents |-> [i \in 1..num_rows |-> -1],
                    degrees |-> [i \in 1..num_rows |-> 0],
                    pattern_flags |-> [i \in 1..num_rows |-> 0]])

\* FillStructureIndices, the while loop: append 'row' to the structure of
\* every column on the walk from 'column' up the forest.
RECURSIVE StructureWalk(_, _, _, _)
StructureWalk(forest, column, row, st) ==
  IF st.pattern_flags[column + 1] = row THEN st
  ELSE StructureWalk(forest, forest[column + 1], row,
         [st EXCEPT !.pattern_flags[column + 1] = row,
                    !.indices[st.column_ptrs[column + 1] + 1] = row,
                    !.column_ptrs[column + 1] = @ + 1])

RECURSIVE StructureEntryLoop(_, _, _, _, _)
StructureEntryLoop(forest, row, index, row_end, st) ==
  IF index >= row_end THEN st
  ELSE LET have_permutation == permutation # <<>>
           entry == entries[index + 1]
           column == IF have_permutation
                     THEN permutation[entry.column + 1]
                     ELSE entry.column
       IN  IF column >= row
           THEN IF have_permutation
                THEN StructureEntryLoop(forest, row, index + 1, row_end, st)
                ELSE st
           ELSE StructureEntryLoop(forest, row, index + 1, row_end,
                                   StructureWalk(forest, column, row, st))

RECURSIVE StructureRowLoop(_, _, _, _)
StructureRowLoop(forest, column_offsets, row, st) ==
  IF row >= num_rows THEN st
  ELSE LET orig_row == IF permutation # <<>>
                       THEN inverse_permutation[row + 1]
                       ELSE row
       IN  StructureRowLoop(forest, column_offsets, row + 1,
             StructureEntryLoop(forest, row, row_entry_offsets[orig_row + 1],
                                row_entry_offsets[orig_row + 2],
                                [st EXCEPT !.pattern_flags[row + 1] = row,
                                           !.column_ptrs[row + 1] =
                                              column_offsets[row + 1]]))

\* scalar_ldl::FillStructureIndices: the LowerStructure of the factor.
FillStructureIndices(forest, column_degrees) ==
  LET column_offsets == OffsetScan(column_degrees)
      filled == StructureRowLoop(forest, column_offsets, 0,
                  [pattern_flags |-> [i \in 1..num_rows |-> 0],
                   column_ptrs |-> [i \in 1..num_rows |-> 0],
                   indices |-> [i \in 1..column_offsets[num_rows + 1] |-> 0]])
  IN  [column_offsets |-> column_offsets, indices |-> filled.indices]

\* The test that the diagonal block stays dense when 'column' joins the
\* supernode: every member's pointer must be at index 'column'.
RECURSIVE DenseDiagonalLoop(_, _, _, _)
DenseDiagonalLoop(structure, j, column, column_ptrs) ==
  IF j >= column THEN [dense_diagonal_block |-> TRUE, column_ptrs |-> column_ptrs]
  ELSE LET index == column_ptrs[j + 1]
           next_column_beg == structure.column_offsets[j + 2]
       IN  IF index < next_column_beg /\ structure.indices[index + 1] = column
           THEN DenseDiagonalLoop(structure, j + 1, column,
                                  [column_ptrs EXCEPT ![j + 1] = @ + 1])
           ELSE [dense_diagonal_block |-> FALSE, column_ptrs |-> column_ptrs]

\* A loop over the columns that extends the supernode whenever the diagonal
\* block stays dense, without comparing the degrees.
RECURSIVE FundamentalLoopDenseOnly(_, _, _)
FundamentalLoopDenseOnly(structure, column, st) ==
  IF column >= num_rows THEN st.supernode_sizes
  ELSE LET test == DenseDiagonalLoop(structure, st.supernode_start, column,
                                     st.column_ptrs)
           last == Len(st.supernode_sizes)
       IN  IF ~test.dense_diagonal_block
           THEN FundamentalLoopDenseOnly(structure, column + 1,
                  [column_ptrs |-> test.column_ptrs, supernode_start |-> column,
                   supernode_sizes |-> Append(st.supernode_sizes, 1)])
           ELSE FundamentalLoopDenseOnly(structure, column + 1,
                  [column_ptrs |-> test.column_ptrs,
                   supernode_start |-> st.supernode_start,
                   supernode_sizes |-> [st.supernode_sizes EXCEPT ![last] = @ + 1]])

\* The loop over the columns 1 .. num_rows - 1 of FormFundamentalSupernodes.
RECURSIVE FundamentalLoop(_, _, _)
FundamentalLoop(structure, column, st) ==
  IF column >= num_rows THEN st.supernode_sizes
  ELSE LET test == DenseDiagonalLoop(structure, st.supernode_start, column,
                                     st.column_ptrs)
           column_beg == test.column_ptrs[column + 1]
           degree == test.column_ptrs[column + 2] - column_beg
           prev_column_ptr == test.column_ptrs[column]
           prev_remaining_degree == column_beg - prev_column_ptr
           last == Len(st.supernode_sizes)
       IN  IF ~test.dense_diagonal_block \/ degree # prev_remaining_degree
           THEN FundamentalLoop(structure, column + 1,
                  [column_ptrs |-> test.column_ptrs, supernode_start |-> column,
                   supernode_sizes |-> Append(st.supernode_sizes, 1)])
           ELSE FundamentalLoop(structure, column + 1,
                  [column_ptrs |-> test.column_ptrs,
                   supernode_start |-> st.supernode_start,
                   supernode_sizes |-> [st.supernode_sizes EXCEPT ![last] = @ + 1]])

\* The supernode sizes FormFundamentalSupernodes leaves; num_rows is
\* positive in every matrix of the model.
FundamentalSizes(structure) ==
  FundamentalLoop(structure, 1,
    [column_ptrs |-> structure.column_offsets, supernode_start |-> 0,
     supernode_sizes |-> <<1>>])

FormFundamentalSupernodes ==
  /\ analysis = "none"
  /\ LET forest == ScalarForest
         structure == FillStructureIndices(forest.parents, forest.degrees)
     IN  /\ parents' = forest.parents
         /\ degrees' = forest.degrees
         /\ scalar_structure' = structure
         /\ orig_supernode_sizes' = FundamentalSizes(structure)
  /\ forest_call' = "done"
  /\ analysis' = "fundamental"
  /\ UNCHANGED <<permutation, inverse_permutation, relaxation_control, relaxed, lower_factor>>
  /\ UNCHANGED snOthers

(***************************************************************************)
(* Claims about the symbolic analysis.                                     *)
(***************************************************************************)
\* The first columns of the supernodes with the given sizes.
SupernodeStarts(sizes) == OffsetScan(sizes)

\* The columns of supernode s (from 1) of the partition with these sizes.
Members(sizes, s) ==
  SupernodeStarts(sizes)[s]..(SupernodeStarts(sizes)[s + 1] - 1)

\* C11: in every fundamental supernode formed, every member is in the
\* filled structure of every earlier member (the diagonal block is dense)
\* and each member's below-diagonal structure is the previous member's
\* structure without the member's own index.
C11_FundamentalSupernodesValid ==
  analysis = "fundamental" =>
    LET filled == SymbolicFill(0, PermutedLower)
        sizes == orig_supernode_sizes
    IN  /\ SupernodeStarts(sizes)[Len(sizes) + 1] = num_rows
        /\ \A s \in 1..Len(sizes) :
             /\ sizes[s] > 0
             /\ \A j \in Members(sizes, s) : \A k \in Members(sizes, s) :
                  j < k => k \in FilledStructure(filled, j)
             /\ \A k \in Members(sizes, s) :
                  k - 1 \in Members(sizes, s) =>
                    FilledStructure(filled, k) = FilledStructure(filled, k - 1) \ {k}

\* A supernode of two or more columns with rows below its diagonal block,
\* next to a column that could not join because its structure differs.
C11_Witness ==
  /\ analysis = "fundamental"
  /\ Len(orig_supernode_sizes) >= 2
  /\ \E s \in 1..Len(orig_supernode_sizes) :
       /\ orig_supernode_sizes[s] >= 2
       /\ LET last == SupernodeStarts(orig_supernode_sizes)[s + 1] - 1
          IN  scalar_structure.column_offsets[last + 2]
                > scalar_structure.column_offsets[last + 1]
  /\ \E j \in 1..(num_rows - 1) :
       /\ scalar_structure.column_offsets[j + 1] > scalar_structure.column_offsets[j]
       /\ scalar_structure.indices[scalar_structure.column_offsets[j] + 1] = j
       /\ \E s \in 1..Len(orig_supernode_sizes) :
            SupernodeStarts(orig_supernode_sizes)[s] = j

(***************************************************************************)
(* Supernode relaxation.                                                   *)
(***************************************************************************)
\* The values of allowable_supernode_zeros and of
\* allowable_supernode_zero_ratio, a fraction <<numerator, denominator>>
\* that a float holds exactly.
AllowableZeros == {0, 1, 3}
AllowableZeroRatios == {<<0, 1>>, <<1, 4>>}

\* MemberToIndex: the supernode of every column, by one scan of the columns.
RECURSIVE MemberToIndexLoop(_, _, _, _)
MemberToIndexLoop(supernode_starts, column, supernode, member_to_index) ==
  IF column >= num_rows THEN member_to_index
  ELSE LET here == IF column = supernode_starts[supernode + 2]
                   THEN supernode + 1 ELSE supernode
       IN  MemberToIndexLoop(supernode_starts, column + 1, here,
                             Append(member_to_index, here))

MemberToIndex(supernode_starts) == MemberToIndexLoop(supernode_starts, 0, 0, <<>>)

\* ConvertFromScalarToSupernodalEliminationForest: the loop over the rows.
RECURSIVE SupernodalForestLoop(_, _, _, _)
SupernodalForestLoop(forest, member_to_index, row, supernode_parents) ==
  IF row >= num_rows THEN supernode_parents
  ELSE LET supernode == member_to_index[row + 1]
           parent == forest[row + 1]
           linked ==
             IF parent = -1 THEN [supernode_parents EXCEPT ![supernode + 1] = -1]
             ELSE IF member_to_index[parent + 1] # supernode
             THEN [supernode_parents EXCEPT ![supernode + 1] = member_to_index[parent + 1]]
             ELSE supernode_parents
       IN  SupernodalForestLoop(forest, member_to_index, row + 1, linked)

ConvertFromScalarToSupernodalEliminationForest(num, forest, member_to_index) ==
  SupernodalForestLoop(forest, member_to_index, 0, [s \in 1..num |-> -1])

\* The degree of a fundamental supernode: the scalar degree of its last
\* column.
FundamentalDegrees(sizes, starts, column_degrees) ==
  [s \in 1..Len(sizes) |-> column_degrees[starts[s] + sizes[s]]]

\* The children of a supernode in the packed child lists, which hold the
\* children of each parent in increasing order.
ChildrenOf(supernode_parents, parent) ==
  Ascending({c \in 0..(Len(supernode_parents) - 1) : supernode_parents[c + 1] = parent})

\* What RelaxSupernodes is handed: the fundamental supernodes of the
\* analysed matrix.
Fundamental ==
  LET starts == OffsetScan(orig_supernode_sizes)
      member_to_index == MemberToIndex(starts)
  IN  [orig_parents |-> parents,
       orig_supernode_sizes |-> orig_supernode_sizes,
       orig_supernode_starts |-> starts,
       orig_member_to_index |-> member_to_index,
       orig_supernode_parents |->
         ConvertFromScalarToSupernodalEliminationForest(
           Len(orig_supernode_sizes), parents, member_to_index),
       orig_supernode_degrees |->
         FundamentalDegrees(orig_supernode_sizes, starts, degrees),
       scalar_structure |-> scalar_structure]

\* The rows at the head of the child's structure that lie in the parent.
RECURSIVE IntersectionLoop(_, _, _, _, _)
IntersectionLoop(fund, parent, ptr, child_structure_end, count) ==
  IF /\ ptr < child_structure_end
     /\ fund.orig_member_to_index[fund.scalar_structure.indices[ptr + 1] + 1] = parent
  THEN IntersectionLoop(fund, parent, ptr + 1, child_structure_end, count + 1)
  ELSE count

\* A test that lets every child merge.
MergableAlways(fund, control, child_tail, parent_tail, child_size, parent_size, num_child_explicit_zeros, num_parent_explicit_zeros) ==
  LET offsets == fund.scalar_structure.column_offsets
      child_degree == offsets[child_tail + 2] - offsets[child_tail + 1]
      parent_degree == offsets[parent_tail + 2] - offsets[parent_tail + 1]
      num_child_parent_intersections ==
        IntersectionLoop(fund, fund.orig_member_to_index[parent_tail + 1],
                         offsets[child_tail + 1], offsets[child_tail + 2], 0)
      remaining_child_degree == child_degree - num_child_parent_intersections
  IN  [mergable |-> TRUE,
       num_merged_zeros |->
         ((parent_size - num_child_parent_intersections)
            + (parent_degree - remaining_child_degree)) * child_size
         + num_child_explicit_zeros + num_parent_explicit_zeros]

MergableSupernode(fund, control, child_tail, parent_tail, child_size, parent_size, num_child_explicit_zeros, num_parent_explicit_zeros) ==
  LET offsets == fund.scalar_structure.column_offsets
      parent == fund.orig_member_to_index[parent_tail + 1]
      child_structure_beg == offsets[child_tail + 1]
      child_structure_end == offsets[child_tail + 2]
      child_degree == child_structure_end - child_structure_beg
      parent_degree == offsets[parent_tail + 2] - offsets[parent_tail + 1]
      num_child_parent_intersections ==
        IntersectionLoop(fund, parent, child_structure_beg, child_structure_end, 0)
      num_missing_parent_intersections == parent_size - num_child_parent_intersections
      remaining_child_degree == child_degree - num_child_parent_intersections
      num_missing_structure_indices == parent_degree - remaining_child_degree
      num_new_zeros ==
        (num_missing_parent_intersections + num_missing_structure_indices) * child_size
      num_old_zeros == num_child_explicit_zeros + num_parent_explicit_zeros
      num_zeros == num_new_zeros + num_old_zeros
      num_expanded_entries ==
        (child_size + (child_size + 1)) \div 2
          + parent_size * child_size
          + remaining_child_degree * child_size
          + (parent_size + (parent_size + 1)) \div 2
          + parent_degree * parent_size
      ratio == control.allowable_supernode_zero_ratio
  IN  [mergable |->
         \/ num_zeros <= control.allowable_supernode_zeros
         \/ num_zeros * ratio[2] <= ratio[1] * num_expanded_entries,
       num_merged_zeros |-> num_zeros]

\* The children of 'parent' that can be merged, with the zeros each merge
\* would leave.
RECURSIVE MergableLoop(_, _, _, _, _, _, _)
MergableLoop(fund, control, parent, kids, child_index, st, mergable_children) ==
  IF child_index > Len(kids) THEN mergable_children
  ELSE LET child == kids[child_index]
           status ==
             MergableSupernode(fund, control,
               fund.orig_supernode_starts[child + 1] + fund.orig_supernode_sizes[child + 1] - 1,
               fund.orig_supernode_starts[parent + 1] + fund.orig_supernode_sizes[parent + 1] - 1,
               st.supernode_sizes[child + 1], st.supernode_sizes[parent + 1],
               st.num_explicit_zeros[child + 1], st.num_explicit_zeros[parent + 1])
       IN  MergableLoop(fund, control, parent, kids, child_index + 1, st,
             IF st.merge_parents[child + 1] = -1 /\ status.mergable
             THEN Append(mergable_children,
                         [child |-> child, num_merged_zeros |-> status.num_merged_zeros])
             ELSE mergable_children)

\* The first of the largest mergable children.
RECURSIVE LargestMergable(_, _, _, _)
LargestMergable(mergable_children, st, mergable_index, merging_index) ==
  IF mergable_index > Len(mergable_children) THEN merging_index
  ELSE LargestMergable(mergable_children, st, mergable_index + 1,
         IF st.supernode_sizes[mergable_children[mergable_index].child + 1]
              > st.supernode_sizes[mergable_children[merging_index].child + 1]
         THEN mergable_index ELSE merging_index)

RECURSIVE MergeChildren(_, _, _, _)
\* MergeChildren: the merge of one child into 'parent', then the next pass.
MergeChild(fund, control, parent, st, merging) ==
  MergeChildren(fund, control, parent,
    [supernode_sizes |->
       [st.supernode_sizes EXCEPT
          ![parent + 1] = @ + st.supernode_sizes[merging.child + 1],
          ![merging.child + 1] = 0],
     num_explicit_zeros |->
       [st.num_explicit_zeros EXCEPT ![parent + 1] = merging.num_merged_zeros],
     merge_parents |->
       [st.merge_parents EXCEPT ![merging.child + 1] =
          IF st.last_merged_children[parent + 1] = -1 THEN parent
          ELSE st.last_merged_children[parent + 1]],
     last_merged_children |->
       [st.last_merged_children EXCEPT ![parent + 1] =
          IF st.last_merged_children[merging.child + 1] = -1 THEN merging.child
          ELSE st.last_merged_children[merging.child + 1]],
     members |->
       [st.members EXCEPT ![parent + 1] = @ \cup st.members[merging.child + 1]],
     merges |->
       Append(st.merges,
              [columns |-> st.members[parent + 1] \cup st.members[merging.child + 1],
               num_merged_zeros |-> merging.num_merged_zeros]),
     stops |-> st.stops])

\* MergeChildren: one pass, given the children that can be merged.
MergeLargest(fund, control, parent, st, mergable_children) ==
  IF mergable_children = <<>>
  THEN [supernode_sizes |-> st.supernode_sizes,
        num_explicit_zeros |-> st.num_explicit_zeros,
        merge_parents |-> st.merge_parents,
        last_merged_children |-> st.last_merged_children,
        members |-> st.members,
        merges |-> st.merges,
        stops |-> Append(st.stops,
                    [parent |-> parent,
                     children |-> ChildrenOf(fund.orig_supernode_parents, parent)])]
  ELSE MergeChild(fund, control, parent, st,
                  mergable_children[LargestMergable(mergable_children, st, 2, 1)])

MergeChildren(fund, control, parent, st) ==
  MergeLargest(fund, control, parent, st,
    MergableLoop(fund, control, parent,
                 ChildrenOf(fund.orig_supernode_parents, parent), 1, st, <<>>))

RECURSIVE MergeLoop(_, _, _, _)
MergeLoop(fund, control, supernode, st) ==
  IF supernode >= Len(fund.orig_supernode_sizes) THEN st
  ELSE MergeLoop(fund, control, supernode + 1,
                 MergeChildren(fund, control, supernode, st))

\* The state of RelaxSupernodes before its first merge.  Three fields are
\* history: the columns merged into each supernode so far, the merges made,
\* each with the columns of the supernode it produced, and the parent and
\* its children each time the loop of MergeChildren was left.
NoMerges(fund) ==
  [supernode_sizes |-> fund.orig_supernode_sizes,
   num_explicit_zeros |-> [s \in 1..Len(fund.orig_supernode_sizes) |-> 0],
   last_merged_children |-> [s \in 1..Len(fund.orig_supernode_sizes) |-> -1],
   merge_parents |-> [s \in 1..Len(fund.orig_supernode_sizes) |-> -1],
   members |-> [s \in 1..Len(fund.orig_supernode_sizes) |->
                  fund.orig_supernode_starts[s]..(fund.orig_supernode_starts[s + 1] - 1)],
   merges |-> <<>>,
   stops |-> <<>>]

\* The merges RelaxSupernodes makes.
Merges(fund, control) == MergeLoop(fund, control, 0, NoMerges(fund))

\* The supernodes that were not merged into another, in increasing order.
MergeRoots(merge_parents) ==
  Ascending({s \in 0..(Len(merge_parents) - 1) : merge_parents[s + 1] = -1})

\* original_to_relaxed of a supernode that was not merged.
OriginalToRelaxed(merge_parents, supernode) ==
  Cardinality({s \in 0..(supernode - 1) : merge_parents[s + 1] = -1})

\* The root of the merge sequence of a supernode.
RECURSIVE MergeRoot(_, _)
MergeRoot(merge_parents, supernode) ==
  IF merge_parents[supernode + 1] = -1 THEN supernode
  ELSE MergeRoot(merge_parents, merge_parents[supernode + 1])

\* The columns of a merge sequence, packed from its leaf to its root.
RECURSIVE PackSequence(_, _, _, _)
PackSequence(fund, merge_parents, supernode_to_pack, packed) ==
  LET start == fund.orig_supernode_starts[supernode_to_pack + 1]
      size == fund.orig_supernode_sizes[supernode_to_pack + 1]
      columns == packed \o [j \in 1..size |-> start + j - 1]
  IN  IF merge_parents[supernode_to_pack + 1] = -1 THEN columns
      ELSE PackSequence(fund, merge_parents, merge_parents[supernode_to_pack + 1], columns)

\* A packing loop that gives every relaxed supernode the size its root had
\* before the merges.
RECURSIVE PackLoopOriginalSizes(_, _, _, _, _)
PackLoopOriginalSizes(fund, merged, roots, index, packed) ==
  IF index > Len(roots) THEN packed
  ELSE LET supernode == roots[index]
           leaf_of_merge == IF merged.last_merged_children[supernode + 1] # -1
                            THEN merged.last_merged_children[supernode + 1]
                            ELSE supernode
           sequence == PackSequence(fund, merged.merge_parents, leaf_of_merge, <<>>)
       IN  PackLoopOriginalSizes(fund, merged, roots, index + 1,
             [inverse_permutation |-> packed.inverse_permutation \o sequence,
              supernode_sizes |->
                Append(packed.supernode_sizes, fund.orig_supernode_sizes[supernode + 1]),
              supernode_starts |->
                Append(packed.supernode_starts, Len(packed.inverse_permutation)),
              supernode_member_to_index |->
                packed.supernode_member_to_index
                  \o [j \in 1..Len(sequence) |-> index - 1]])

\* The loop that fills relaxation_inverse_permutation and the sizes.
RECURSIVE PackLoop(_, _, _, _, _)
PackLoop(fund, merged, roots, index, packed) ==
  IF index > Len(roots) THEN packed
  ELSE LET supernode == roots[index]
           leaf_of_merge == IF merged.last_merged_children[supernode + 1] # -1
                            THEN merged.last_merged_children[supernode + 1]
                            ELSE supernode
           sequence == PackSequence(fund, merged.merge_parents, leaf_of_merge, <<>>)
       IN  PackLoop(fund, merged, roots, index + 1,
             [inverse_permutation |-> packed.inverse_permutation \o sequence,
              supernode_sizes |-> Append(packed.supernode_sizes, Len(sequence)),
              supernode_starts |->
                Append(packed.supernode_starts, Len(packed.inverse_permutation)),
              supernode_member_to_index |->
                packed.supernode_member_to_index
                  \o [j \in 1..Len(sequence) |-> index - 1]])

InvertPermutation(perm) ==
  [i \in 1..Len(perm) |-> (CHOOSE j \in 1..Len(perm) : perm[j] = i - 1) - 1]

\* RelaxSupernodes: everything it writes, given the merges, the supernodes
\* left, their packing and the relaxation permutation.
RelaxedOrdering(fund, perm, merged, roots, packed, relaxation_permutation) ==
  LET composed == [row \in 1..Len(perm) |-> relaxation_permutation[perm[row] + 1]]
  IN  [merged |-> merged,
       relaxation_permutation |-> relaxation_permutation,
       supernode_parents |->
         [r \in 1..Len(roots) |->
            LET parent == fund.orig_supernode_parents[roots[r] + 1]
            IN  IF parent = -1 THEN -1
                ELSE OriginalToRelaxed(merged.merge_parents,
                                       MergeRoot(merged.merge_parents, parent))],
       supernode_degrees |->
         [r \in 1..Len(roots) |-> fund.orig_supernode_degrees[roots[r] + 1]],
       supernode_sizes |-> packed.supernode_sizes,
       supernode_starts |->
         Append(packed.supernode_starts, Len(packed.inverse_permutation)),
       supernode_member_to_index |-> packed.supernode_member_to_index,
       parents |->
         [new \in 1..Len(packed.inverse_permutation) |->
            LET orig_parent == fund.orig_parents[packed.inverse_permutation[new] + 1]
            IN  IF orig_parent = -1 THEN -1
                ELSE relaxation_permutation[orig_parent + 1]],
       permutation |-> IF perm = <<>> THEN relaxation_permutation ELSE composed,
       inverse_permutation |->
         IF perm = <<>> THEN packed.inverse_permutation
         ELSE InvertPermutation(composed)]

\* The relaxation permutation is the inverse of the packed order.
RelaxedPacking(fund, perm, merged, roots, packed) ==
  RelaxedOrdering(fund, perm, merged, roots, packed,
                  InvertPermutation(packed.inverse_permutation))

\* The supernodes left by the merges, packed in order.
RelaxedRoots(fund, perm, merged, roots) ==
  RelaxedPacking(fund, perm, merged, roots,
    PackLoop(fund, merged, roots, 1,
      [inverse_permutation |-> <<>>, supernode_sizes |-> <<>>,
       supernode_starts |-> <<>>, supernode_member_to_index |-> <<>>]))

RelaxedMerges(fund, perm, merged) ==
  RelaxedRoots(fund, perm, merged, MergeRoots(merged.merge_parents))

RelaxedSupernodes(fund, control, perm) ==
  RelaxedMerges(fund, perm, Merges(fund, control))

RelaxSupernodes(zeros, ratio) ==
  /\ analysis = "fundamental"
  /\ LET control == [relax_supernodes |-> TRUE,
                     allowable_supernode_zeros |-> zeros,
                     allowable_supernode_zero_ratio |-> ratio]
     IN  /\ relaxation_control' = control
         /\ relaxed' = RelaxedSupernodes(Fundamental, control, permutation)
         /\ permutation' = relaxed'.permutation
         /\ inverse_permutation' = relaxed'.inverse_permutation
         /\ parents' = relaxed'.parents
  /\ analysis' = "supernodes"
  /\ UNCHANGED <<degrees, forest_call, scalar_structure, orig_supernode_sizes, lower_factor>>
  /\ UNCHANGED snOthers

\* FormSupernodes without relaxation: the fundamental supernodes are kept.
KeepFundamentalSupernodes ==
  /\ analysis = "fundamental"
  /\ relaxation_control' = [relaxation_control EXCEPT !.relax_supernodes = FALSE]
  /\ relaxed' =
       [merged |-> NoMerges(Fundamental),
        relaxation_permutation |-> [i \in 1..num_rows |-> i - 1],
        supernode_parents |-> Fundamental.orig_supernode_parents,
        supernode_degrees |-> Fundamental.orig_supernode_degrees,
        supernode_sizes |-> orig_supernode_sizes,
        supernode_starts |-> Fundamental.orig_supernode_starts,
        supernode_member_to_index |-> Fundamental.orig_member_to_index,
        parents |-> parents,
        permutation |-> permutation,
        inverse_permutation |-> inverse_permutation]
  /\ analysis' = "supernodes"
  /\ UNCHANGED <<permutation, inverse_permutation, parents, degrees, forest_call,
                 scalar_structure, orig_supernode_sizes, lower_factor>>
  /\ UNCHANGED snOthers

(***************************************************************************)
(* Claims about the relaxation.                                            *)
(***************************************************************************)
\* The rows below the diagonal block of a supernode with the given columns.
StructureOf(filled, columns) ==
  UNION {FilledStructure(filled, j) : j \in columns} \ columns

\* The entries a supernode with the given columns stores: its lower
\* triangular diagonal block and its rectangular block below.
StoredEntries(filled, columns) ==
  (Cardinality(columns) * (Cardinality(columns) + 1)) \div 2
    + Cardinality(columns) * Cardinality(StructureOf(filled, columns))

RECURSIVE SumOver(_, _)
SumOver(f, S) ==
  IF S = {} THEN 0
  ELSE LET x == CHOOSE y \in S : TRUE IN f[x] + SumOver(f, S \ {x})

\* The stored entries of a supernode that are structurally zero.
ExplicitZeros(filled, columns) ==
  StoredEntries(filled, columns)
    - SumOver([j \in columns |-> 1 + Cardinality(FilledStructure(filled, j))], columns)

\* The columns of a merge, in the relaxed ordering.
RelaxedColumns(merge) == {relaxed.relaxation_permutation[j + 1] : j \in merge.columns}

\* C12: every merge of the relaxation leaves a supernode whose explicit
\* zeros number at most allowable_supernode_zeros or at most
\* allowable_supernode_zero_ratio times its stored entries; so does every
\* relaxed supernode.
C12_MergesHonorThresholds ==
  (analysis = "supernodes" /\ relaxation_control.relax_supernodes) =>
    LET filled == SymbolicFill(0, PermutedLower)
        ratio == relaxation_control.allowable_supernode_zero_ratio
        Honors(columns) ==
          \/ ExplicitZeros(filled, columns) <= relaxation_control.allowable_supernode_zeros
          \/ ExplicitZeros(filled, columns) * ratio[2]
               <= ratio[1] * StoredEntries(filled, columns)
    IN  /\ \A e \in 1..Len(relaxed.merged.merges) :
             Honors(RelaxedColumns(relaxed.merged.merges[e]))
        /\ \A r \in 1..Len(relaxed.supernode_sizes) :
             Honors(Members(relaxed.supernode_sizes, r))

\* The relaxation counts the explicit zeros of every merge exactly, and
\* the degree it gives a relaxed supernode is the size of its structure.
C12_ZeroCountsExact ==
  (analysis = "supernodes" /\ relaxation_control.relax_supernodes) =>
    LET filled == SymbolicFill(0, PermutedLower)
    IN  /\ \A e \in 1..Len(relaxed.merged.merges) :
             relaxed.merged.merges[e].num_merged_zeros
               = ExplicitZeros(filled, RelaxedColumns(relaxed.merged.merges[e]))
        /\ \A r \in 1..Len(relaxed.supernode_sizes) :
             relaxed.supernode_degrees[r]
               = Cardinality(StructureOf(filled, Members(relaxed.supernode_sizes, r)))

\* The columns, in the relaxed ordering, of the supernode that a merge of
\* 'child' into the parent of a stop would have produced: nothing is merged
\* into either of the two after the stop.
UnmergedColumns(stop, child) ==
  {relaxed.relaxation_permutation[j + 1] :
     j \in relaxed.merged.members[stop.parent + 1]
             \cup relaxed.merged.members[child + 1]}

\* The children of the parent of a stop that were not merged into it: a
\* supernode is merged only while the children of its parent are.
UnmergedChildren(stop) ==
  {stop.children[k] : k \in {i \in 1..Len(stop.children) :
                              relaxed.merged.merge_parents[stop.children[i] + 1] = -1}}

\* C26: when the merging of children into a parent stops, a merge of any
\* child that was not merged would leave more explicit zeros than
\* allowable_supernode_zeros and more than allowable_supernode_zero_ratio
\* times the entries of the merged supernode.
C26_UnmergedChildrenFailBothCriteria ==
  (analysis = "supernodes" /\ relaxation_control.relax_supernodes) =>
    LET filled == SymbolicFill(0, PermutedLower)
        ratio == relaxation_control.allowable_supernode_zero_ratio
    IN  \A e \in 1..Len(relaxed.merged.stops) :
          \A child \in UnmergedChildren(relaxed.merged.stops[e]) :
            LET columns == UnmergedColumns(relaxed.merged.stops[e], child)
            IN  /\ ExplicitZeros(filled, columns)
                     > relaxation_control.allowable_supernode_zeros
                /\ ExplicitZeros(filled, columns) * ratio[2]
                     > ratio[1] * StoredEntries(filled, columns)

\* What the loop of MergeChildren does establish: with the entries of the
\* merged supernode estimated as MergableSupernode estimates them, every
\* child that was not merged fails both tests, and the zeros of the test are
\* the explicit zeros of the merged supernode.
C26_UnmergedChildrenFailTheTestsOfTheCode ==
  (analysis = "supernodes" /\ relaxation_control.relax_supernodes) =>
    LET filled == SymbolicFill(0, PermutedLower)
        fund == [orig_member_to_index |-> MemberToIndex(OffsetScan(orig_supernode_sizes)),
                 scalar_structure |-> scalar_structure]
        starts == OffsetScan(orig_supernode_sizes)
    IN  \A e \in 1..Len(relaxed.merged.stops) :
          \A child \in UnmergedChildren(relaxed.merged.stops[e]) :
            LET stop == relaxed.merged.stops[e]
                status ==
                  MergableSupernode(fund, relaxation_control,
                    starts[child + 1] + orig_supernode_sizes[child + 1] - 1,
                    starts[stop.parent + 1] + orig_supernode_sizes[stop.parent + 1] - 1,
                    Cardinality(relaxed.merged.members[child + 1]),
                    Cardinality(relaxed.merged.members[stop.parent + 1]),
                    relaxed.merged.num_explicit_zeros[child + 1],
                    relaxed.merged.num_explicit_zeros[stop.parent + 1])
            IN  /\ ~status.mergable
                /\ status.num_merged_zeros
                     = ExplicitZeros(filled, UnmergedColumns(stop, child))

\* The columns of original supernode s (from 0) in the relaxed ordering.
RelaxedColumnsOf(s) ==
  {relaxed.relaxation_permutation[j + 1] : j \in Members(orig_supernode_sizes, s + 1)}

\* C27: after a relaxation the relaxed supernodes have positive sizes that
\* sum to n, so their index ranges are disjoint and cover 0..n-1; the
\* relaxation permutation is a bijection of 0..n-1; and the columns of every
\* original supernode lie in the range of the relaxed supernode it was
\* merged into, which holds nothing else.
C27_RelaxedSupernodesContiguous ==
  (analysis = "supernodes" /\ relaxation_control.relax_supernodes) =>
    LET roots == MergeRoots(relaxed.merged.merge_parents)
        originals == 0..(Len(orig_supernode_sizes) - 1)
        RelaxedIndex(s) ==
          OriginalToRelaxed(relaxed.merged.merge_parents,
                            MergeRoot(relaxed.merged.merge_parents, s)) + 1
    IN  /\ Len(relaxed.supernode_sizes) = Len(roots)
        /\ \A r \in 1..Len(relaxed.supernode_sizes) : relaxed.supernode_sizes[r] > 0
        /\ relaxed.supernode_starts = OffsetScan(relaxed.supernode_sizes)
        /\ relaxed.supernode_starts[Len(relaxed.supernode_sizes) + 1] = num_rows
        /\ {relaxed.relaxation_permutation[j] : j \in 1..num_rows} = 0..(num_rows - 1)
        /\ \A j \in 0..(num_rows - 1) :
             j \in Members(relaxed.supernode_sizes,
                           relaxed.supernode_member_to_index[j + 1] + 1)
        /\ \A s \in originals :
             RelaxedColumnsOf(s) \subseteq Members(relaxed.supernode_sizes, RelaxedIndex(s))
        /\ \A r \in 1..Len(roots) :
             /\ Members(relaxed.supernode_sizes, r)
                  = UNION {RelaxedColumnsOf(s) :
                             s \in {t \in originals : RelaxedIndex(t) = r}}
             /\ Members(relaxed.supernode_sizes, r)
                  = {relaxed.relaxation_permutation[j + 1] :
                       j \in relaxed.merged.members[roots[r] + 1]}

\* A relaxation that merged three original supernodes into one, left
\* another supernode beside it, and moved a column.
C27_Witness ==
  /\ analysis = "supernodes"
  /\ relaxation_control.relax_supernodes
  /\ Len(relaxed.supernode_sizes) >= 2
  /\ \E r \in 0..(Len(orig_supernode_sizes) - 1) :
       Cardinality({s \in 0..(Len(orig_supernode_sizes) - 1) :
                      MergeRoot(relaxed.merged.merge_parents, s) = r}) >= 3
  /\ \E j \in 1..num_rows : relaxed.relaxation_permutation[j] # j - 1

\* A relaxation that merged under the ratio alone, then merged the result
\* again, and left another child unmerged.
C12_Witness ==
  /\ analysis = "supernodes"
  /\ relaxation_control.relax_supernodes
  /\ Len(relaxed.merged.merges) >= 2
  /\ Len(relaxed.supernode_sizes) >= 2
  /\ \E e \in 1..Len(relaxed.merged.merges) :
       relaxed.merged.merges[e].num_merged_zeros
         > relaxation_control.allowable_supernode_zeros

(***************************************************************************)
(* The structure of the supernodal lower factor.                           *)
(***************************************************************************)
\* supernodal_ldl::FillStructureIndices, the while loop: put 'row' into the
\* structure of every supernode on the walk from 'descendant' up the
\* forest, until the supernode of 'row' is met.
RECURSIVE SupernodalStructureWalk(_, _, _, _, _)
SupernodalStructureWalk(ordering, main_supernode, descendant, row, st) ==
  IF st.pattern_flags[descendant + 1] = row THEN st
  ELSE LET marked == [st EXCEPT !.pattern_flags[descendant + 1] = row]
           descendant_supernode == ordering.supernode_member_to_index[descendant + 1]
           inserted ==
             IF marked.supernode_pattern_flags[descendant_supernode + 1] # row
             THEN [marked EXCEPT
                     !.supernode_pattern_flags[descendant_supernode + 1] = row,
                     !.structure_indices[marked.supernode_ptrs[descendant_supernode + 1] + 1] = row,
                     !.supernode_ptrs[descendant_supernode + 1] = @ + 1]
             ELSE marked
       IN  IF descendant_supernode = main_supernode THEN marked
           ELSE SupernodalStructureWalk(ordering, main_supernode,
                                        ordering.parents[descendant + 1], row, inserted)

RECURSIVE SupernodalStructureEntryLoop(_, _, _, _, _)
SupernodalStructureEntryLoop(ordering, row, index, row_end, st) ==
  IF index >= row_end THEN st
  ELSE LET have_permutation == ordering.permutation # <<>>
           entry == entries[index + 1]
           descendant == IF have_permutation
                         THEN ordering.permutation[entry.column + 1]
                         ELSE entry.column
       IN  IF descendant >= row
           THEN IF have_permutation
                THEN SupernodalStructureEntryLoop(ordering, row, index + 1, row_end, st)
                ELSE st
           ELSE SupernodalStructureEntryLoop(ordering, row, index + 1, row_end,
                  SupernodalStructureWalk(ordering,
                    ordering.supernode_member_to_index[row + 1], descendant, row, st))

RECURSIVE SupernodalStructureRowLoop(_, _, _)
SupernodalStructureRowLoop(ordering, row, st) ==
  IF row >= num_rows THEN st
  ELSE LET orig_row == IF ordering.permutation # <<>>
                       THEN ordering.inverse_permutation[row + 1]
                       ELSE row
           main_supernode == ordering.supernode_member_to_index[row + 1]
       IN  SupernodalStructureRowLoop(ordering, row + 1,
             SupernodalStructureEntryLoop(ordering, row,
               row_entry_offsets[orig_row + 1], row_entry_offsets[orig_row + 2],
               [st EXCEPT !.pattern_flags[row + 1] = row,
                          !.supernode_pattern_flags[main_supernode + 1] = row]))

\* The LowerFactor constructor followed by FillStructureIndices.
SupernodalFillStructureIndices(ordering) ==
  LET num == Len(ordering.supernode_sizes)
      structure_index_offsets == OffsetScan(ordering.supernode_degrees)
      filled == SupernodalStructureRowLoop(ordering, 0,
                  [pattern_flags |-> [i \in 1..num_rows |-> 0],
                   supernode_pattern_flags |-> [s \in 1..num |-> 0],
                   supernode_ptrs |-> [s \in 1..num |-> structure_index_offsets[s]],
                   structure_indices |->
                     [i \in 1..structure_index_offsets[num + 1] |-> 0]])
  IN  [structure_index_offsets |-> structure_index_offsets,
       structure_indices |-> filled.structure_indices]

\* FillIntersectionSizes, first pass: the number of runs of one supernode.
RECURSIVE CountIntersections(_, _, _, _, _, _)
CountIntersections(factor, member_to_index, row_ptr, index_end, last_supernode, count) ==
  IF row_ptr = index_end THEN count
  ELSE LET supernode == member_to_index[factor.structure_indices[row_ptr + 1] + 1]
       IN  CountIntersections(factor, member_to_index, row_ptr + 1, index_end,
             supernode, IF supernode # last_supernode THEN count + 1 ELSE count)

\* A second pass that closes a run at every row.
RECURSIVE IntersectionSizesPerRow(_, _, _, _, _, _, _)
IntersectionSizesPerRow(factor, member_to_index, row_ptr, index_end, last_supernode, intersect_size, sizes) ==
  IF row_ptr = index_end THEN sizes
  ELSE IntersectionSizesPerRow(factor, member_to_index, row_ptr + 1, index_end,
                               last_supernode, 1, Append(sizes, 1))

\* FillIntersectionSizes, second pass over the structure of one supernode.
RECURSIVE IntersectionSizesLoop(_, _, _, _, _, _, _)
IntersectionSizesLoop(factor, member_to_index, row_ptr, index_end, last_supernode, intersect_size, sizes) ==
  IF row_ptr = index_end
  THEN IF last_supernode # -1 THEN Append(sizes, intersect_size) ELSE sizes
  ELSE LET row_supernode == member_to_index[factor.structure_indices[row_ptr + 1] + 1]
       IN  IF row_supernode # last_supernode
           THEN IntersectionSizesLoop(factor, member_to_index, row_ptr + 1, index_end,
                  row_supernode, 1,
                  IF last_supernode # -1 THEN Append(sizes, intersect_size) ELSE sizes)
           ELSE IntersectionSizesLoop(factor, member_to_index, row_ptr + 1, index_end,
                  last_supernode, intersect_size + 1, sizes)

RECURSIVE IntersectionSupernodeLoop(_, _, _, _)
IntersectionSupernodeLoop(factor, member_to_index, supernode, sizes) ==
  IF supernode >= Len(factor.structure_index_offsets) - 1 THEN sizes
  ELSE IntersectionSupernodeLoop(factor, member_to_index, supernode + 1,
         IntersectionSizesLoop(factor, member_to_index,
           factor.structure_index_offsets[supernode + 1],
           factor.structure_index_offsets[supernode + 2], -1, 0, sizes))

FillIntersectionSizes(factor, member_to_index) ==
  [structure_index_offsets |-> factor.structure_index_offsets,
   structure_indices |-> factor.structure_indices,
   intersect_size_offsets |->
     OffsetScan([s \in 1..(Len(factor.structure_index_offsets) - 1) |->
                   CountIntersections(factor, member_to_index,
                     factor.structure_index_offsets[s],
                     factor.structure_index_offsets[s + 1], -1, 0)]),
   intersect_sizes |-> IntersectionSupernodeLoop(factor, member_to_index, 0, <<>>)]

\* FormStructure of the left-looking factorization.
FormStructure ==
  /\ analysis = "supernodes"
  /\ lower_factor' =
       FillIntersectionSizes(
         SupernodalFillStructureIndices(
           [relaxed EXCEPT !.permutation = permutation,
                           !.inverse_permutation = inverse_permutation,
                           !.parents = parents]),
         relaxed.supernode_member_to_index)
  /\ analysis' = "structure"
  /\ UNCHANGED <<permutation, inverse_permutation, parents, degrees, forest_call,
                 scalar_structure, orig_supernode_sizes, relaxation_control, relaxed>>
  /\ UNCHANGED snOthers

SNNext ==
  \/ FormFundamentalSupernodes
  \/ \E zeros \in AllowableZeros, ratio \in AllowableZeroRatios :
       RelaxSupernodes(zeros, ratio)
  \/ KeepFundamentalSupernodes
  \/ FormStructure

(***************************************************************************)
(* Claims about the structure of the lower factor.                         *)
(***************************************************************************)
NumSupernodes == Len(relaxed.supernode_sizes)

\* structure(s) and intersect_sizes(s) of supernode s (from 0), as stored.
Structure(s) ==
  [k \in 1..(lower_factor.structure_index_offsets[s + 2]
               - lower_factor.structure_index_offsets[s + 1]) |->
     lower_factor.structure_indices[lower_factor.structure_index_offsets[s + 1] + k]]

IntersectSizes(s) ==
  [k \in 1..(lower_factor.intersect_size_offsets[s + 2]
               - lower_factor.intersect_size_offsets[s + 1]) |->
     lower_factor.intersect_sizes[lower_factor.intersect_size_offsets[s + 1] + k]]

\* The supernode that owns a row.
Owner(row) ==
  CHOOSE t \in 0..(NumSupernodes - 1) : row \in Members(relaxed.supernode_sizes, t + 1)

\* The rows of the filled structure of supernode s that supernode t owns.
RowsIn(filled, s, t) ==
  StructureOf(filled, Members(relaxed.supernode_sizes, s + 1))
    \cap Members(relaxed.supernode_sizes, t + 1)

\* The supernodes that own a row of the filled structure of supernode s,
\* in increasing order.
Intersecting(filled, s) ==
  Ascending({t \in 0..(NumSupernodes - 1) : RowsIn(filled, s, t) # {}})

\* C13: structure(s) holds the rows of the filled structure of s in
\* increasing order, and intersect_sizes(s) has one positive entry for each
\* supernode that owns rows of it, in order: the number of those rows, which
\* are consecutive in structure(s); the entries sum to degree(s).
C13_IntersectSizesEncodeRuns ==
  analysis = "structure" =>
    LET filled == SymbolicFill(0, PermutedLower)
    IN  \A s \in 0..(NumSupernodes - 1) :
          LET runs == Intersecting(filled, s)
              sizes == IntersectSizes(s)
          IN  /\ Structure(s) =
                   Ascending(StructureOf(filled, Members(relaxed.supernode_sizes, s + 1)))
              /\ Len(sizes) = Len(runs)
              /\ \A k \in 1..Len(sizes) :
                   /\ sizes[k] > 0
                   /\ sizes[k] = Cardinality(RowsIn(filled, s, runs[k]))
                   /\ \A i \in 1..sizes[k] :
                        Owner(Structure(s)[PrefixSum(sizes, k - 1) + i]) = runs[k]
              /\ \A k \in 1..(Len(sizes) - 1) : runs[k] # runs[k + 1]
              /\ PrefixSum(sizes, Len(sizes)) = relaxed.supernode_degrees[s + 1]
              /\ PrefixSum(sizes, Len(sizes)) = Len(Structure(s))

\* A factor in which the structure of one supernode runs through two
\* supernodes and the structure of one has a run of two rows.
C13_Witness ==
  /\ analysis = "structure"
  /\ \E s \in 0..(NumSupernodes - 1) : Len(IntersectSizes(s)) >= 2
  /\ \E s \in 0..(NumSupernodes - 1) :
       \E k \in 1..Len(IntersectSizes(s)) : IntersectSizes(s)[k] >= 2

(***************************************************************************)
(* The supernodal drivers with dynamic regularization, Cholesky, without   *)
(* supernodal pivoting.  The columns carry their permuted indices.  The    *)
(* updates between supernodes do not bear on the log's indices: 'input'    *)
(* holds each diagonal block as it is when FactorDiagonalBlock receives    *)
(* it, 'matrix' the diagonal factor.                                       *)
(***************************************************************************)
\* Largest number of columns of a matrix factored with regularization.
MaxColumns == 4

\* ordering_.inverse_permutation: empty, a rotation or the reversal.
CyclicOrderings(n) ==
  {<<>>, [i \in 1..n |-> i % n], [i \in 1..n |-> n - i]}

\* The supernode, of sizes 'sizes', that holds column j.
ColumnSupernodeOf(sizes, j) ==
  CHOOSE s \in 1..Len(sizes) : PrefixSum(sizes, s - 1) <= j /\ j < PrefixSum(sizes, s)

\* Diagonal blocks with 0 or 4 on the diagonal and 1 elsewhere.
BlockDiagonalInputs(sizes) ==
  {[r \in 0..(PrefixSum(sizes, Len(sizes)) - 1) |->
      [c \in 0..(PrefixSum(sizes, Len(sizes)) - 1) |->
         IF r = c THEN d[r]
         ELSE IF ColumnSupernodeOf(sizes, r) = ColumnSupernodeOf(sizes, c) THEN 1
         ELSE 0]] :
     d \in [0..(PrefixSum(sizes, Len(sizes)) - 1) -> {0, 4}]}

RGInit ==
  /\ num_supernodes \in 1..MaxSupernodes
  /\ assembly_parents \in PostorderedForests(num_supernodes)
  /\ supernode_sizes \in
       {z \in [1..num_supernodes -> 1..MaxSupernodeSize] :
          PrefixSum(z, num_supernodes) <= MaxColumns}
  /\ supernode_pivots = <<>>
  /\ driver = "none"
  /\ num_successful_pivots = 0
  /\ height = PrefixSum(supernode_sizes, num_supernodes)
  /\ input \in BlockDiagonalInputs(supernode_sizes)
  /\ matrix = ToField(input)
  /\ positive_threshold \in Thresholds
  /\ block_size \in 1..MaxBlockSize
  /\ kernel = "idle"
  /\ returned = -1
  /\ dynamic_regularization = <<>>
  /\ sqrt_exact = TRUE
  /\ inverse_permutation \in CyclicOrderings(height)
  /\ permutation = IF inverse_permutation = <<>> THEN <<>>
                   ELSE InverseOf(inverse_permutation)
  /\ parents = <<>>
  /\ degrees = <<>>
  /\ forest_call = "idle"

\* diagonal_factor_->blocks[s] as a matrix of its own.
DiagonalBlock(M, s) ==
  [r \in 0..(supernode_sizes[s + 1] - 1) |->
     [c \in 0..(supernode_sizes[s + 1] - 1) |->
        M[SupernodeOffset(s) + r][SupernodeOffset(s) + c]]]

WriteDiagonalBlock(M, s, B) ==
  [r \in DOMAIN M |-> [c \in DOMAIN M |->
     IF /\ r >= SupernodeOffset(s) /\ r < SupernodeOffset(s + 1)
        /\ c >= SupernodeOffset(s) /\ c < SupernodeOffset(s + 1)
     THEN B[r - SupernodeOffset(s)][c - SupernodeOffset(s)]
     ELSE M[r][c]]]

\* The accounting of the Finalize routines after FactorDiagonalBlock.
RegularizedFinalized(s, result, factored) ==
  [succeeded |-> factored.ret = supernode_sizes[s + 1],
   num_successful_pivots |-> result.num_successful_pivots + factored.ret,
   dynamic_regularization |-> factored.log,
   matrix |-> WriteDiagonalBlock(result.matrix, s, factored.matrix)]

\* FactorDiagonalBlock with dynamic_reg_params.offset = offset, appending to
\* result->dynamic_regularization.
RegularizedSupernodeFinalize(s, offset, result) ==
  RegularizedFinalized(s, result,
    BlockedDynamicallyRegularizedLowerCholeskyFactorization(
      block_size, positive_threshold, offset, DiagonalBlock(result.matrix, s),
      supernode_sizes[s + 1], result.dynamic_regularization))

\* MergeDynamicRegularizations: the logs of the contributions, one after
\* the other.
RECURSIVE MergeDynamicRegularizations(_, _, _)
MergeDynamicRegularizations(contributions, index, log) ==
  IF index > Len(contributions) THEN log
  ELSE MergeDynamicRegularizations(contributions, index + 1,
         log \o contributions[index].dynamic_regularization)

\* The merge of the subtrees' results: the pivot counts up to the first
\* failure, and the logs when no subtree failed.
MergedContributions(contributions, M, merged) ==
  [succeeded |-> merged.succeeded,
   num_successful_pivots |-> merged.num_successful_pivots,
   dynamic_regularization |->
     IF merged.succeeded THEN MergeDynamicRegularizations(contributions, 1, <<>>)
     ELSE <<>>,
   matrix |-> M]

MergeRegularized(done) ==
  MergedContributions(done.contributions, done.matrix,
                      MergeContributions(done.contributions, 1, 0))

RegularizedSubtreeMerged(s, offset, merged) ==
  IF merged.succeeded THEN RegularizedSupernodeFinalize(s, offset, merged)
  ELSE merged

RECURSIVE RegularizedSubtree(_, _, _)
RECURSIVE RegularizedChildren(_, _, _, _)
RegularizedChildDone(kids, index, contributions, subtree) ==
  RegularizedChildren(kids, index + 1, subtree.matrix,
                      Append(contributions, subtree))

\* The recursion on the children, or on the roots: each with the offset of
\* its own first column.
RegularizedChildren(kids, index, M, contributions) ==
  IF index > Len(kids) THEN [matrix |-> M, contributions |-> contributions]
  ELSE RegularizedChildDone(kids, index, contributions,
         RegularizedSubtree(kids[index], SupernodeOffset(kids[index]), M))

RegularizedSubtree(s, offset, M) ==
  RegularizedSubtreeMerged(s, offset,
    MergeRegularized(RegularizedChildren(Children(s), 1, M, <<>>)))

RECURSIVE RegularizedLeftLookingLoop(_, _)
RegularizedLeftLookingNext(s, finalized) ==
  IF ~finalized.succeeded THEN finalized
  ELSE RegularizedLeftLookingLoop(s + 1, finalized)

RegularizedLeftLookingLoop(s, result) ==
  IF s >= num_supernodes THEN result
  ELSE RegularizedLeftLookingNext(s,
         RegularizedSupernodeFinalize(s, SupernodeOffset(s), result))

RegularizedReturn(name, result) ==
  /\ driver = "none"
  /\ driver' = name
  /\ num_successful_pivots' = result.num_successful_pivots
  /\ dynamic_regularization' = result.dynamic_regularization
  /\ matrix' = result.matrix
  /\ UNCHANGED <<num_supernodes, assembly_parents, supernode_sizes, supernode_pivots>>
  /\ UNCHANGED <<input, height, block_size, positive_threshold, kernel, returned, sqrt_exact>>
  /\ UNCHANGED <<cmVars, efVars, snVars, nfVars, slVars, dpVars, tkVars>>

RegularizedRightLooking ==
  RegularizedReturn("RightLooking",
    MergeRegularized(RegularizedChildren(Roots, 1, matrix, <<>>)))

RegularizedLeftLooking ==
  RegularizedReturn("LeftLooking",
    RegularizedLeftLookingLoop(0,
      [succeeded |-> TRUE, num_successful_pivots |-> 0,
       dynamic_regularization |-> <<>>, matrix |-> matrix]))

RGNext == RegularizedRightLooking \/ RegularizedLeftLooking

(***************************************************************************)
(* Claims about the regularization log.                                    *)
(***************************************************************************)
\* The supernode holding column j, and the column's pivot when its turn
\* came: the input's entry less the squares of its row of the factor.
ColumnSupernode(j) ==
  ColumnSupernodeOf(supernode_sizes, j) - 1

LocalPivot(j, offset) ==
  QSub(QInt(input[j][j]),
       QSum([c \in 0..(j - offset - 1) |->
               QMul(matrix[j][offset + c], matrix[j][offset + c])], j - offset))

UpdatedPivot(j) ==
  LocalPivot(j, SupernodeOffset(ColumnSupernode(j)))

\* The columns whose log entry a returned driver holds.
LoggedColumns ==
  {j \in 0..(height - 1) :
     \E e \in 1..Len(dynamic_regularization) :
       dynamic_regularization[e][1] =
         IF inverse_permutation = <<>> THEN j ELSE inverse_permutation[j + 1]}

\* C16: every entry of the log a driver returns carries the original index
\* inverse_permutation[offset + i] (offset + i without a permutation) of a
\* column, at local position i of the supernode whose first column is
\* offset, whose pivot was inside the dead zone, with that pivot's shift;
\* no column is logged twice; and when the driver succeeds, or stops in the
\* left-looking loop, every factored column whose pivot was below the
\* threshold is in the log.
C16_LogIndexedByOriginalRow ==
  driver \in {"RightLooking", "LeftLooking"} =>
    /\ Cardinality(LoggedColumns) = Len(dynamic_regularization)
    /\ \A j \in LoggedColumns :
         /\ QLess(UpdatedPivot(j), QInt(positive_threshold))
         /\ QLess(QInt(-positive_threshold), UpdatedPivot(j))
         /\ \E e \in 1..Len(dynamic_regularization) :
              dynamic_regularization[e] =
                <<IF inverse_permutation = <<>> THEN j ELSE inverse_permutation[j + 1],
                  QSub(QInt(positive_threshold), UpdatedPivot(j))>>
    /\ (driver = "LeftLooking" \/ num_successful_pivots = height) =>
         \A j \in 0..(num_successful_pivots - 1) :
           QLess(UpdatedPivot(j), QInt(positive_threshold)) => j \in LoggedColumns

\* A driver succeeded on a forest with a child, under an ordering that is
\* not the identity, with a block size below the size of a supernode that
\* does not start at column 0, and logged that supernode's last column.
C16_Witness ==
  /\ driver \in {"RightLooking", "LeftLooking"}
  /\ num_successful_pivots = height
  /\ \E j \in 0..(height - 1) : inverse_permutation # <<>> /\ inverse_permutation[j + 1] # j
  /\ \E s \in 0..(num_supernodes - 1) :
       /\ assembly_parents[s + 1] # -1
       /\ SupernodeOffset(s) > 0
       /\ block_size < supernode_sizes[s + 1]
       /\ SupernodeOffset(s + 1) - 1 \in LoggedColumns

(***************************************************************************)
(* Factorization::Solve.  The permutation of the right-hand sides and the  *)
(* arithmetic of the trapezoidal solves are left out: the model keeps the  *)
(* BLAS thread count, the shared state Solve keeps between calls, and the  *)
(* order in which the sweeps visit the supernodes.  The OpenMP sweeps are   *)
(* one step.                                                               *)
(***************************************************************************)
\* Largest BLAS thread count in force when Solve is called.
MaxBlasThreads == 2
\* Largest tbb::this_task_arena::max_concurrency().
MaxConcurrency == 2
\* Largest number of Solve calls on one Factorization.
MaxSolves == 2

\* 'threshold' is control_.forward_solve_out_of_place_supernode_threshold;
\* 'paths' is history: the branch taken by each trapezoidal solve of the
\* forward sweep.
NoSolve ==
  [call |-> "idle", calls |-> 0, max_threads |-> 0, old_max_threads |-> 0,
   prior |-> 0, forward |-> <<>>, backward |-> <<>>, threshold |-> 0,
   paths |-> <<>>]

\* The values of forward_solve_out_of_place_supernode_threshold.
OutOfPlaceThresholds == 1..(MaxSupernodeSize + 1)

SLIdle ==
  /\ num_blas_threads = 0
  /\ solve_shared_state = [buffers |-> 0, views |-> 0]
  /\ solve = NoSolve

\* The sizes of n supernodes of one size.
EqualSizes(n) == {[s \in 1..n |-> size] : size \in 1..MaxSupernodeSize}

\* A factorization with its assembly forest, whose supernodes have one
\* size, no Solve called on it yet.
SLInit ==
  /\ num_supernodes \in 1..MaxSupernodes
  /\ assembly_parents \in PostorderedForests(num_supernodes)
  /\ supernode_sizes \in EqualSizes(num_supernodes)
  /\ supernode_pivots = <<>>
  /\ driver = "idle"
  /\ num_successful_pivots = 0
  /\ num_blas_threads \in 1..MaxBlasThreads
  /\ solve_shared_state = [buffers |-> 0, views |-> 0]
  /\ \E threshold \in OutOfPlaceThresholds :
       solve = [NoSolve EXCEPT !.call = "none", !.threshold = threshold]

RECURSIVE LowerTriangularSolveRecursion(_, _)
RECURSIVE LowerTriangularSolveChildren(_, _, _)
RECURSIVE LowerTransposeTriangularSolveRecursion(_, _)
RECURSIVE LowerTransposeTriangularSolveChildren(_, _, _)

\* The supernodes in the order of their LowerSupernodalTrapezoidalSolve:
\* 'solved' followed by the subtree of 'supernode', children first.
LowerTriangularSolveRecursion(supernode, solved) ==
  Append(LowerTriangularSolveChildren(Children(supernode), 1, solved), supernode)

LowerTriangularSolveChildren(kids, child_index, solved) ==
  IF child_index > Len(kids) THEN solved
  ELSE LowerTriangularSolveChildren(kids, child_index + 1,
         LowerTriangularSolveRecursion(kids[child_index], solved))

LowerTriangularSolve ==
  LowerTriangularSolveChildren(Roots, 1, <<>>)

\* A backward recursion that solves a supernode after its children.
LowerTransposeChildrenFirst(supernode, solved) ==
  Append(LowerTransposeTriangularSolveChildren(Children(supernode), 1, solved),
         supernode)

\* The supernodes in the order of their
\* LowerTransposeSupernodalTrapezoidalSolve: the supernode, then its children.
LowerTransposeTriangularSolveRecursion(supernode, solved) ==
  LowerTransposeTriangularSolveChildren(Children(supernode), 1,
                                        Append(solved, supernode))

LowerTransposeTriangularSolveChildren(kids, child_index, solved) ==
  IF child_index > Len(kids) THEN solved
  ELSE LowerTransposeTriangularSolveChildren(kids, child_index + 1,
         LowerTransposeTriangularSolveRecursion(kids[child_index], solved))

LowerTransposeTriangularSolve ==
  LowerTransposeTriangularSolveChildren(Roots, 1, <<>>)

\* The allocation block of the multi-threaded branch: the first call sizes
\* the views, a later call throws when their number is not num_supernodes.
SolveAllocate ==
  IF solve_shared_state.buffers # 1
  THEN [thrown |-> FALSE, state |-> [buffers |-> 1, views |-> num_supernodes]]
  ELSE [thrown |-> solve_shared_state.views # num_supernodes,
        state |-> solve_shared_state]

\* Solve is entered: with more than one thread the BLAS thread count is
\* read and set to one and the shared state is set up, else the forward
\* sweep starts.
SolveEnter(max_threads) ==
  /\ solve.call \in {"none", "returned", "thrown"}
  /\ solve.calls < MaxSolves
  /\ IF max_threads > 1
     THEN /\ num_blas_threads' = 1
          /\ solve_shared_state' = SolveAllocate.state
          /\ solve' = [call |-> IF SolveAllocate.thrown THEN "thrown" ELSE "threaded",
                       calls |-> solve.calls + 1,
                       max_threads |-> max_threads,
                       old_max_threads |-> num_blas_threads,
                       prior |-> num_blas_threads,
                       forward |-> <<>>, backward |-> <<>>,
                       threshold |-> solve.threshold, paths |-> <<>>]
     ELSE /\ solve' = [call |-> "forward",
                       calls |-> solve.calls + 1,
                       max_threads |-> max_threads,
                       old_max_threads |-> 0,
                       prior |-> num_blas_threads,
                       forward |-> <<>>, backward |-> <<>>,
                       threshold |-> solve.threshold, paths |-> <<>>]
          /\ UNCHANGED <<num_blas_threads, solve_shared_state>>
  /\ UNCHANGED <<cmVars, dkVars, drVars, efVars, snVars, nfVars, dpVars, tkVars>>

\* OpenMPLowerTriangularSolve, OpenMPDiagonalSolve and
\* OpenMPLowerTransposeTriangularSolve.
OpenMPSolves ==
  /\ solve.call = "threaded"
  /\ solve' = [solve EXCEPT !.call = "swept"]
  /\ UNCHANGED <<num_blas_threads, solve_shared_state>>
  /\ UNCHANGED <<cmVars, dkVars, drVars, efVars, snVars, nfVars, dpVars, tkVars>>

\* SetNumBlasThreads(old_max_threads) and the return.
RestoreBlasThreads ==
  /\ solve.call = "swept"
  /\ num_blas_threads' = solve.old_max_threads
  /\ solve' = [solve EXCEPT !.call = "returned"]
  /\ UNCHANGED solve_shared_state
  /\ UNCHANGED <<cmVars, dkVars, drVars, efVars, snVars, nfVars, dpVars, tkVars>>

\* A trapezoidal solve that updates out of place only above the threshold.
LowerSupernodalTrapezoidalSolveAbove(supernode) ==
  IF assembly_parents[supernode + 1] = -1 THEN "returned"
  ELSE IF supernode_sizes[supernode + 1] > solve.threshold
       THEN "out_of_place" ELSE "in_place"

\* The branch of LowerSupernodalTrapezoidalSolve: it returns after the
\* diagonal block when the supernode has no rows below it, which is when it
\* is a root, and else updates the rows of its structure out of place or
\* entry by entry.
LowerSupernodalTrapezoidalSolve(supernode) ==
  IF assembly_parents[supernode + 1] = -1 THEN "returned"
  ELSE IF supernode_sizes[supernode + 1] >= solve.threshold
       THEN "out_of_place" ELSE "in_place"

\* One LowerSupernodalTrapezoidalSolve of the forward sweep.
ForwardStep ==
  /\ solve.call = "forward"
  /\ solve' = [solve EXCEPT
       !.forward = Append(@, LowerTriangularSolve[Len(@) + 1]),
       !.paths = Append(@, LowerSupernodalTrapezoidalSolve(
                             LowerTriangularSolve[Len(@) + 1])),
       !.call = IF Len(solve.forward) + 1 = num_supernodes THEN "diagonal" ELSE @]
  /\ UNCHANGED <<num_blas_threads, solve_shared_state>>
  /\ UNCHANGED <<cmVars, dkVars, drVars, efVars, snVars, nfVars, dpVars, tkVars>>

DiagonalSolve ==
  /\ solve.call = "diagonal"
  /\ solve' = [solve EXCEPT !.call = "backward"]
  /\ UNCHANGED <<num_blas_threads, solve_shared_state>>
  /\ UNCHANGED <<cmVars, dkVars, drVars, efVars, snVars, nfVars, dpVars, tkVars>>

\* One LowerTransposeSupernodalTrapezoidalSolve of the backward sweep; Solve
\* returns after the last.
BackwardStep ==
  /\ solve.call = "backward"
  /\ solve' = [solve EXCEPT
       !.backward = Append(@, LowerTransposeTriangularSolve[Len(@) + 1]),
       !.call = IF Len(solve.backward) + 1 = num_supernodes THEN "returned" ELSE @]
  /\ UNCHANGED <<num_blas_threads, solve_shared_state>>
  /\ UNCHANGED <<cmVars, dkVars, drVars, efVars, snVars, nfVars, dpVars, tkVars>>

\* Factor is called again on the Factorization, between two solves, with a
\* matrix whose supernodes form the forest 'forest'; no solve has been
\* made with the new factors.
Refactor(forest) ==
  /\ solve.call \in {"returned", "thrown"}
  /\ num_supernodes' = Len(forest)
  /\ assembly_parents' = forest
  /\ supernode_sizes' \in EqualSizes(Len(forest))
  /\ solve' = [solve EXCEPT !.call = "none", !.forward = <<>>, !.backward = <<>>,
                            !.paths = <<>>]
  /\ UNCHANGED <<supernode_pivots, driver, num_successful_pivots>>
  /\ UNCHANGED <<num_blas_threads, solve_shared_state>>
  /\ UNCHANGED <<cmVars, dkVars, efVars, snVars, nfVars, dpVars, tkVars>>

SLNext ==
  \/ \E max_threads \in 1..MaxConcurrency : SolveEnter(max_threads)
  \/ OpenMPSolves
  \/ RestoreBlasThreads
  \/ ForwardStep
  \/ DiagonalSolve
  \/ BackwardStep
  \/ \E n \in 1..MaxSupernodes : \E forest \in PostorderedForests(n) : Refactor(forest)

\* A factorization whose supernodes have any sizes, solved on one thread.
ForwardInit ==
  /\ num_supernodes \in 1..MaxSupernodes
  /\ assembly_parents \in PostorderedForests(num_supernodes)
  /\ supernode_sizes \in [1..num_supernodes -> 1..MaxSupernodeSize]
  /\ supernode_pivots = <<>>
  /\ driver = "idle"
  /\ num_successful_pivots = 0
  /\ num_blas_threads = 1
  /\ solve_shared_state = [buffers |-> 0, views |-> 0]
  /\ \E threshold \in OutOfPlaceThresholds :
       solve = [NoSolve EXCEPT !.call = "none", !.threshold = threshold]

\* Solve on one thread, up to the end of its forward sweep.
ForwardNext ==
  \/ SolveEnter(1)
  \/ ForwardStep

(***************************************************************************)
(* Claims about the solve.                                                 *)
(***************************************************************************)
\* C28 as stated: the forward solve of a supernode with rows below it
\* updates out of place exactly when its size is greater than the threshold.
C28_Original ==
  \A e \in 1..Len(solve.paths) :
    solve.paths[e] # "returned" =>
      (solve.paths[e] = "out_of_place"
         <=> supernode_sizes[solve.forward[e] + 1] > solve.threshold)

\* C28: the forward solve of a supernode with rows below it updates them
\* out of place exactly when its size is at least the threshold, and entry
\* by entry otherwise; a supernode without rows below it is solved against
\* its diagonal block only.
C28_OutOfPlaceFromThreshold ==
  /\ Len(solve.paths) = Len(solve.forward)
  /\ \A e \in 1..Len(solve.paths) :
       /\ solve.paths[e] = "returned" <=> assembly_parents[solve.forward[e] + 1] = -1
       /\ solve.paths[e] = "out_of_place" <=>
            /\ assembly_parents[solve.forward[e] + 1] # -1
            /\ supernode_sizes[solve.forward[e] + 1] >= solve.threshold
       /\ solve.paths[e] = "in_place" <=>
            /\ assembly_parents[solve.forward[e] + 1] # -1
            /\ supernode_sizes[solve.forward[e] + 1] < solve.threshold

\* A forward sweep that updated out of place for a supernode whose size is
\* the threshold and entry by entry for a smaller one.
C28_Witness ==
  /\ solve.call = "diagonal"
  /\ \E e \in 1..Len(solve.paths) :
       /\ solve.paths[e] = "out_of_place"
       /\ supernode_sizes[solve.forward[e] + 1] = solve.threshold
  /\ \E e \in 1..Len(solve.paths) : solve.paths[e] = "in_place"

Positions(q, s) == {i \in 1..Len(q) : q[i] = s}

AllSupernodes == 0..(num_supernodes - 1)

\* C17: in the forward sweep a supernode is solved after all of its
\* children, in the backward sweep after its parent and before every child;
\* no supernode is solved twice in a sweep; the forward sweep has solved
\* every supernode once before the diagonal solve, and the backward sweep
\* every supernode once when Solve returns.
C17_SweepsFollowTheForest ==
  solve.call \in {"forward", "diagonal", "backward", "returned"}
  /\ solve.max_threads = 1 =>
    /\ \A s \in AllSupernodes :
         /\ Cardinality(Positions(solve.forward, s)) <= 1
         /\ Cardinality(Positions(solve.backward, s)) <= 1
    /\ \A i \in 1..Len(solve.forward) :
         /\ solve.forward[i] \in AllSupernodes
         /\ \A c \in AllSupernodes :
              assembly_parents[c + 1] = solve.forward[i]
                => \E j \in 1..(i - 1) : solve.forward[j] = c
    /\ \A i \in 1..Len(solve.backward) :
         /\ solve.backward[i] \in AllSupernodes
         /\ \A c \in AllSupernodes :
              assembly_parents[c + 1] = solve.backward[i]
                => \A j \in 1..i : solve.backward[j] # c
         /\ assembly_parents[solve.backward[i] + 1] # -1
              => \E j \in 1..(i - 1) :
                   solve.backward[j] = assembly_parents[solve.backward[i] + 1]
    /\ solve.call \in {"diagonal", "backward", "returned"}
         => Len(solve.forward) = num_supernodes
    /\ solve.call = "forward" => solve.backward = <<>>
    /\ solve.call = "returned" => Len(solve.backward) = num_supernodes

\* A single-threaded Solve returned on a forest in which a supernode has
\* two children.
C17_Witness ==
  /\ solve.call = "returned"
  /\ solve.max_threads = 1
  /\ \E s \in AllSupernodes :
       Cardinality({c \in AllSupernodes : assembly_parents[c + 1] = s}) >= 2

\* C18: while a multi-threaded Solve runs the BLAS thread count is one, and
\* after every exit from it the count is the one in force when it was
\* entered.
C18_BlasThreadsRestored ==
  /\ (solve.call \in {"threaded", "swept"}) => num_blas_threads = 1
  /\ (solve.call \in {"returned", "thrown"}) => num_blas_threads = solve.prior

\* Every Solve that returns normally leaves the BLAS thread count as it
\* found it.
C18_RestoredOnReturn ==
  solve.call = "returned" => num_blas_threads = solve.prior

(***************************************************************************)
(* The tiled Hermitian DPP sampler.  The generator is the stream of the    *)
(* uniform draws it will return and the number already drawn.  The kernel  *)
(* is in place, as the dense factorizations are.                           *)
(***************************************************************************)
NoGenerator == [stream |-> <<>>, position |-> 0]

DPIdle ==
  /\ generator = NoGenerator
  /\ maximum_likelihood = FALSE
  /\ sample = <<>>
  /\ tile_size = 0

\* The marginal kernels: quarters, 1/4 or 3/4 on the diagonal and 0 or 1/4
\* off it.
KernelMatrices(h) ==
  {[r \in 0..(h - 1) |-> [c \in 0..(h - 1) |->
      IF r = c THEN d[r] ELSE IF c < r THEN o[<<r, c>>] ELSE o[<<c, r>>]]] :
     d \in [0..(h - 1) -> {1, 3}], o \in [StrictLower(h) -> {0, 1}]}

\* The generators: the streams of h draws that are 1/4 throughout, 3/4
\* throughout, or alternate between the two.
Generators(h) ==
  {[stream |-> [k \in 1..h |-> IF k % 2 = 1 THEN odd ELSE even], position |-> 0] :
     odd \in {<<1, 4>>, <<3, 4>>}, even \in {<<1, 4>>, <<3, 4>>}}

DPInit ==
  /\ height \in 1..MaxHeight
  /\ input \in KernelMatrices(height)
  /\ matrix = [r \in 0..(height - 1) |-> [c \in 0..(height - 1) |->
                 QNorm(input[r][c], 4)]]
  /\ positive_threshold = 0
  /\ block_size = 1
  /\ tile_size \in 1..MaxBlockSize
  /\ kernel = "none"
  /\ returned = -1
  /\ dynamic_regularization = <<>>
  /\ sqrt_exact = TRUE
  /\ generator \in Generators(height)
  /\ maximum_likelihood = FALSE
  /\ sample = <<>>

QMin(a, b) == IF QLess(a, b) THEN a ELSE b

\* The coin-flip kernel on the n x n view at (off, off): u is 1/2 under
\* maximum_likelihood and the generator's next draw otherwise; column i is
\* kept when u < min(1, pivot), and its pivot loses 1 when it is not; the
\* rank-one update follows.
RECURSIVE SampleLoop(_, _, _, _, _, _, _)
SampleColumn(M, off, n, i, ml, gen, kept, keep, delta) ==
  SampleLoop(RankOneUpdate(SolveColumn(M, off, n, i, delta, delta), off, n, i, delta),
             off, n, i + 1, ml, gen,
             IF keep THEN Append(kept, i) ELSE kept)

SampleFlip(M, off, n, i, ml, gen, kept, keep) ==
  SampleColumn(M, off, n, i, ml, gen, kept, keep,
               IF keep THEN M[off + i][off + i]
               ELSE QSub(M[off + i][off + i], QInt(1)))

SampleLoop(M, off, n, i, ml, gen, kept) ==
  IF i >= n THEN [matrix |-> M, generator |-> gen, sample |-> kept]
  ELSE IF ml
  THEN SampleFlip(M, off, n, i, ml, gen, kept,
                  QLess(<<1, 2>>, QMin(QInt(1), M[off + i][off + i])))
  ELSE SampleFlip(M, off, n, i, ml,
                  [gen EXCEPT !.position = @ + 1], kept,
                  QLess(gen.stream[gen.position + 1],
                        QMin(QInt(1), M[off + i][off + i])))

BlockedSampleLowerHermitianDPP(bs, ml, M, off, n, gen) ==
  SampleLoop(M, off, n, 0, ml, gen, <<>>)

\* A tile task that has the kernel draw whatever the flag says.
DiagonalBlockTaskDrawing(bs, ml, M, i, tsize, gen) ==
  BlockedSampleLowerHermitianDPP(bs, FALSE, M, i, tsize, gen)

\* The task on the diagonal block of a tile: block_size, maximum_likelihood
\* and the generator are handed to the kernel.
DiagonalBlockTask(bs, ml, M, i, tsize, gen) ==
  BlockedSampleLowerHermitianDPP(bs, ml, M, i, tsize, gen)

\* The tasks on the tiles below and to the right of the diagonal block: the
\* unit triangular solves, the copy into 'factor' with the division by the
\* pivots, and the rank-tsize update.
TileUpdate(M, i, tsize, h) ==
  MatrixMultiplyLowerNormalTranspose(
    SolveAgainstDiagonal(RightLowerAdjointUnitTriangularSolves(M, i, tsize, h),
                         i, tsize, h),
    RightLowerAdjointUnitTriangularSolves(M, i, tsize, h), i, tsize, h)

RECURSIVE OpenMPSampleLoop(_, _, _, _, _, _, _, _)
OpenMPSampleTile(h, ts, bs, ml, i, tsize, kept, diag) ==
  IF h = i + tsize
  THEN [matrix |-> diag.matrix, generator |-> diag.generator,
        sample |-> kept \o [k \in 1..Len(diag.sample) |-> i + diag.sample[k]]]
  ELSE OpenMPSampleLoop(TileUpdate(diag.matrix, i, tsize, h), h, ts, bs, ml,
                        i + ts, diag.generator,
                        kept \o [k \in 1..Len(diag.sample) |-> i + diag.sample[k]])

OpenMPSampleLoop(M, h, ts, bs, ml, i, gen, kept) ==
  IF i >= h THEN [matrix |-> M, generator |-> gen, sample |-> kept]
  ELSE OpenMPSampleTile(h, ts, bs, ml, i, Min(h - i, ts), kept,
                        DiagonalBlockTask(bs, ml, M, i, Min(h - i, ts), gen))

OpenMPBlockedSampleLowerHermitianDPP(ts, bs, ml, M, h, gen) ==
  OpenMPSampleLoop(M, h, ts, bs, ml, 0, gen, <<>>)

Sampled(ml, result) ==
  /\ kernel = "none"
  /\ generator.stream # <<>>
  /\ kernel' = "OpenMPBlockedSampleLowerHermitianDPP"
  /\ maximum_likelihood' = ml
  /\ matrix' = result.matrix
  /\ generator' = result.generator
  /\ sample' = result.sample
  /\ UNCHANGED <<input, height, block_size, positive_threshold, returned,
                 dynamic_regularization, sqrt_exact, tile_size>>
  /\ UNCHANGED <<cmVars, drVars, efVars, snVars, nfVars, slVars, tkVars>>

OpenMPSample(ml) ==
  Sampled(ml, OpenMPBlockedSampleLowerHermitianDPP(
                tile_size, block_size, ml, matrix, height, generator))

DPNext == \E ml \in BOOLEAN : OpenMPSample(ml)

(***************************************************************************)
(* Claims about the DPP sampler.                                           *)
(***************************************************************************)
\* The pivot of column k when its coin was flipped: the kernel's entry less
\* the updates of the columns before it.
CoinPivot(k) ==
  QSub(QNorm(input[k][k], 4),
       QSum([j \in 0..(k - 1) |->
               QMul(QMul(matrix[k][j], matrix[k][j]), matrix[j][j])], k))

InSample(k) == \E e \in 1..Len(sample) : sample[e] = k

\* C19: a sample taken with maximum_likelihood keeps exactly the columns
\* whose pivot exceeds 1/2 (u = 0.5 < min(1, pivot)), in increasing order;
\* it draws nothing from the generator, and the sample and the factor are
\* the same for every generator.
C19_MaximumLikelihoodIsDeterministic ==
  (kernel = "OpenMPBlockedSampleLowerHermitianDPP" /\ maximum_likelihood) =>
    /\ generator.position = 0
    /\ \A e \in 1..Len(sample) :
         /\ sample[e] \in 0..(height - 1)
         /\ \A f \in 1..(e - 1) : sample[f] < sample[e]
    /\ \A k \in 0..(height - 1) :
         /\ InSample(k) <=> QLess(<<1, 2>>, QMin(QInt(1), CoinPivot(k)))
         /\ matrix[k][k] = IF InSample(k) THEN CoinPivot(k)
                           ELSE QSub(CoinPivot(k), QInt(1))
    /\ \A g \in Generators(height) :
         LET other == OpenMPBlockedSampleLowerHermitianDPP(
                        tile_size, block_size, TRUE,
                        [r \in 0..(height - 1) |-> [c \in 0..(height - 1) |->
                           QNorm(input[r][c], 4)]], height, g)
         IN  other.sample = sample /\ other.matrix = matrix

\* A maximum-likelihood sample over more than one tile that keeps some
\* columns and drops others, of a kernel whose sample would have been
\* another under the draws of some generator.
C19_Witness ==
  /\ kernel = "OpenMPBlockedSampleLowerHermitianDPP"
  /\ maximum_likelihood
  /\ tile_size < height
  /\ sample # <<>>
  /\ Len(sample) < height
  /\ \E g \in Generators(height) :
       OpenMPBlockedSampleLowerHermitianDPP(
         tile_size, block_size, FALSE,
         [r \in 0..(height - 1) |-> [c \in 0..(height - 1) |->
            QNorm(input[r][c], 4)]], height, g).sample # sample

(***************************************************************************)
(* The numerical supernodal factorization, of type kLDLAdjointFactorization *)
(* with dynamic regularization and supernodal pivoting off.  The front of  *)
(* supernode s is a square matrix over 0..size + degree - 1: its diagonal  *)
(* block at the top left, its lower block under it in the order of         *)
(* structure(s), and, in the right-looking driver, its Schur complement at *)
(* the bottom right.  Only lower triangles are read and written.           *)
(***************************************************************************)
\* 'trace' is history: the descendants visited by the last pass of the
\* left-looking driver, each with the link read for the next one and the
\* lists as they were after its step.
NoFactorization ==
  [call |-> "none", supernode |-> 0, fronts |-> <<>>, heads |-> <<>>,
   lists |-> <<>>, rel_rows |-> <<>>, intersect_ptrs |-> <<>>, trace |-> <<>>]

NFIdle ==
  /\ precision = 0
  /\ left_looking = NoFactorization
  /\ right_looking = NoFactorization

\* Control::block_size of the supernodal factorization.
ControlBlockSize == 64

SupernodeSize(s) == relaxed.supernode_sizes[s + 1]
SupernodeStart(s) == relaxed.supernode_starts[s + 1]
SupernodeDegree(s) ==
  lower_factor.structure_index_offsets[s + 2] - lower_factor.structure_index_offsets[s + 1]
StructureRow(s, k) ==
  lower_factor.structure_indices[lower_factor.structure_index_offsets[s + 1] + k + 1]
SupernodeOf(row) == relaxed.supernode_member_to_index[row + 1]

\* The row of the permuted matrix held at index i of the front of s.
FrontRow(s, i) ==
  IF i < SupernodeSize(s) THEN SupernodeStart(s) + i
  ELSE StructureRow(s, i - SupernodeSize(s))

\* The entry of the input matrix at a position of the permuted matrix.
PermutedValue(row, column) ==
  LET orig_row == IF inverse_permutation = <<>> THEN row ELSE inverse_permutation[row + 1]
      orig_column ==
        IF inverse_permutation = <<>> THEN column ELSE inverse_permutation[column + 1]
      found == {e \in 1..Len(entries) :
                  entries[e].row = orig_row /\ entries[e].column = orig_column}
  IN  IF found = {} THEN 0 ELSE entries[CHOOSE e \in found : TRUE].value

\* InitializeBlockColumn: the diagonal and lower blocks of the supernode
\* hold the lower triangle of its columns of the permuted input.
InitializeBlockColumn(s) ==
  [i \in 0..(SupernodeSize(s) + SupernodeDegree(s) - 1) |->
     [j \in 0..(SupernodeSize(s) + SupernodeDegree(s) - 1) |->
        IF j < SupernodeSize(s) /\ i >= j
        THEN QInt(PermutedValue(FrontRow(s, i), SupernodeStart(s) + j))
        ELSE QInt(0)]]

\* FormScaledTranspose for kLDLAdjointFactorization, kept in the layout of
\* the lower block: entry (r, c) of the lower block times delta_c.
FormScaledTranspose(M, size) ==
  [r \in DOMAIN M |-> [c \in DOMAIN M |->
     IF c < size /\ r >= size THEN QMul(M[c][c], M[r][c]) ELSE M[r][c]]]

\* FactorDiagonalBlock, then SolveAgainstDiagonalBlock when the supernode
\* succeeded and has a lower block.
SolveAgainstDiagonalBlock(M, size) ==
  SolveAgainstDiagonal(
    RightLowerAdjointUnitTriangularSolves(M, 0, size, Cardinality(DOMAIN M)),
    0, size, Cardinality(DOMAIN M))

FinalizeFactored(factored, size) ==
  IF factored.ret < size THEN [succeeded |-> FALSE, front |-> factored.matrix]
  ELSE IF Cardinality(DOMAIN factored.matrix) = size
  THEN [succeeded |-> TRUE, front |-> factored.matrix]
  ELSE [succeeded |-> TRUE, front |-> SolveAgainstDiagonalBlock(factored.matrix, size)]

LeftLookingSupernodeFinalize(front, size) ==
  FinalizeFactored(LowerBlockedLDLAdjointFactorization(ControlBlockSize, front, size), size)

\* descendants.Insert(index, value): value becomes the head of the list.
Insert(st, index, value) ==
  [st EXCEPT !.heads[index + 1] = value, !.lists[value + 1] = st.heads[index + 1]]

\* The index in the front of 'supernode' of the row at position t of the
\* part of structure(descendant) that starts at rel_row: rel_ind for the
\* first intersect_size rows, pattern_flags for the rest.
RelativeIndex(supernode, descendant, rel_row, intersect_size, t) ==
  IF t < intersect_size
  THEN StructureRow(descendant, rel_row + t) - SupernodeStart(supernode)
  ELSE SupernodeSize(supernode)
         + (CHOOSE k \in 0..(SupernodeDegree(supernode) - 1) :
              StructureRow(supernode, k) = StructureRow(descendant, rel_row + t))

\* An update that multiplies the descendant's lower block by its own
\* transpose, the diagonal factor left out.
UpdatedEntryUnscaled(value, D, scaled, size, row, column) ==
  QSub(value, QSum([l \in 0..(size - 1) |-> QMul(D[row][l], D[column][l])], size))

\* The update of one entry: the product of row 'row' of the descendant's
\* lower block with column 'column' of its scaled transpose is taken away.
UpdatedEntry(value, D, scaled, size, row, column) ==
  QSub(value, QSum([l \in 0..(size - 1) |-> QMul(D[row][l], scaled[column][l])], size))

\* The updates of the diagonal block and of the lower block of 'supernode'
\* by one descendant whose front is D.
DescendantUpdate(supernode, descendant, front, D, scaled, rel_row, intersect_size) ==
  [i \in DOMAIN front |-> [j \in DOMAIN front |->
     LET hit == {t \in (0..(SupernodeDegree(descendant) - rel_row - 1))
                         \X (0..(intersect_size - 1)) :
                   /\ t[1] >= t[2]
                   /\ RelativeIndex(supernode, descendant, rel_row, intersect_size, t[1]) = i
                   /\ RelativeIndex(supernode, descendant, rel_row, intersect_size, t[2]) = j}
     IN  IF hit = {} THEN front[i][j]
         ELSE UpdatedEntry(front[i][j], D, scaled, SupernodeSize(descendant),
                SupernodeSize(descendant) + rel_row + (CHOOSE t \in hit : TRUE)[1],
                SupernodeSize(descendant) + rel_row + (CHOOSE t \in hit : TRUE)[2])]]

\* A step that updates and re-inserts the descendant but leaves its cursors
\* where they were.
DescendantStepWithoutAdvance(supernode, descendant, st, rel_row, intersect_size) ==
  LET updated ==
        [st EXCEPT
           !.front = DescendantUpdate(supernode, descendant, st.front,
                       left_looking.fronts[descendant + 1],
                       FormScaledTranspose(left_looking.fronts[descendant + 1],
                                           SupernodeSize(descendant)),
                       rel_row, intersect_size)]
  IN  IF SupernodeDegree(descendant) - (rel_row + intersect_size) > 0
      THEN Insert(updated,
                  SupernodeOf(StructureRow(descendant, rel_row + intersect_size)),
                  descendant)
      ELSE updated

\* One descendant of the list of 'supernode': the update, the advance of
\* its cursors, and its insertion in the list of its next ancestor.
DescendantStep(supernode, descendant, st, rel_row, intersect_size) ==
  LET advanced ==
        [st EXCEPT
           !.front = DescendantUpdate(supernode, descendant, st.front,
                       left_looking.fronts[descendant + 1],
                       FormScaledTranspose(left_looking.fronts[descendant + 1],
                                           SupernodeSize(descendant)),
                       rel_row, intersect_size),
           !.intersect_ptrs[descendant + 1] = @ + 1,
           !.rel_rows[descendant + 1] = rel_row + intersect_size]
  IN  IF SupernodeDegree(descendant) - (rel_row + intersect_size) > 0
      THEN Insert(advanced,
                  SupernodeOf(StructureRow(descendant, rel_row + intersect_size)),
                  descendant)
      ELSE advanced

\* The history of one step of the loop over the descendants.
Visited(descendant, next_descendant, stepped) ==
  [front |-> stepped.front, heads |-> stepped.heads, lists |-> stepped.lists,
   rel_rows |-> stepped.rel_rows, intersect_ptrs |-> stepped.intersect_ptrs,
   trace |-> Append(stepped.trace,
               [descendant |-> descendant, next_descendant |-> next_descendant,
                heads |-> stepped.heads, lists |-> stepped.lists])]

\* A loop that reads the link to the next descendant after the descendant
\* has been inserted in the list of its next ancestor.
RECURSIVE DescendantLoopReadingLate(_, _, _)
DescendantLoopReadingLate(supernode, next_descendant, st) ==
  IF next_descendant < 0 THEN st
  ELSE LET stepped ==
             DescendantStep(supernode, next_descendant, st,
                            st.rel_rows[next_descendant + 1],
                            lower_factor.intersect_sizes[
                              st.intersect_ptrs[next_descendant + 1] + 1])
       IN  IF Len(st.trace) >= NumSupernodes THEN st
           ELSE DescendantLoopReadingLate(supernode,
                  stepped.lists[next_descendant + 1],
                  Visited(next_descendant, stepped.lists[next_descendant + 1], stepped))

RECURSIVE DescendantLoop(_, _, _)
DescendantLoop(supernode, next_descendant, st) ==
  IF next_descendant < 0 THEN st
  ELSE DescendantLoop(supernode, st.lists[next_descendant + 1],
         Visited(next_descendant, st.lists[next_descendant + 1],
           DescendantStep(supernode, next_descendant, st,
                          st.rel_rows[next_descendant + 1],
                          lower_factor.intersect_sizes[
                            st.intersect_ptrs[next_descendant + 1] + 1])))

\* The end of LeftLookingSupernodeUpdate: the supernode joins the list of
\* its parent and its own list is cleared.
CloseDescendantList(supernode, st) ==
  [(IF SupernodeDegree(supernode) > 0
    THEN Insert(st, SupernodeOf(StructureRow(supernode, 0)), supernode)
    ELSE st) EXCEPT !.heads[supernode + 1] = -1]

LeftLookingSupernodeUpdate(supernode, st) ==
  CloseDescendantList(supernode,
    DescendantLoop(supernode, st.heads[supernode + 1],
      [st EXCEPT !.rel_rows[supernode + 1] = 0,
                 !.intersect_ptrs[supernode + 1] =
                   lower_factor.intersect_size_offsets[supernode + 1]]))

\* A buffer of n entries, all equal to value.
RECURSIVE Filled(_, _)
Filled(n, value) == IF n = 0 THEN <<>> ELSE Append(Filled(n - 1, value), value)

\* LeftLooking before its loop: the shared state is allocated and every
\* descendant list is empty.
LeftLookingAllocate ==
  /\ analysis = "structure"
  /\ left_looking.call = "none"
  /\ left_looking' =
       [call |-> "running", supernode |-> 0,
        fronts |-> [s \in 1..NumSupernodes |-> <<>>],
        heads |-> Filled(NumSupernodes, -1),
        lists |-> Filled(NumSupernodes, -1),
        rel_rows |-> [s \in 1..NumSupernodes |-> 0],
        intersect_ptrs |-> [s \in 1..NumSupernodes |-> 0],
        trace |-> <<>>]
  /\ UNCHANGED <<precision, right_looking>>
  /\ UNCHANGED nfOthers

\* What one pass of the loop of LeftLooking leaves.
LeftLookingAdvance(supernode, updated, finalized) ==
  [call |-> IF ~finalized.succeeded THEN "failed"
            ELSE IF supernode + 1 = NumSupernodes THEN "done" ELSE "running",
   supernode |-> IF finalized.succeeded THEN supernode + 1 ELSE supernode,
   fronts |-> [left_looking.fronts EXCEPT ![supernode + 1] = finalized.front],
   heads |-> updated.heads,
   lists |-> updated.lists,
   rel_rows |-> updated.rel_rows,
   intersect_ptrs |-> updated.intersect_ptrs,
   trace |-> updated.trace]

LeftLookingUpdated(supernode, updated) ==
  LeftLookingAdvance(supernode, updated,
    LeftLookingSupernodeFinalize(updated.front, SupernodeSize(supernode)))

\* One pass of the loop of LeftLooking: InitializeBlockColumn,
\* LeftLookingSupernodeUpdate and LeftLookingSupernodeFinalize.
LeftLookingSupernode ==
  /\ left_looking.call = "running"
  /\ left_looking' =
       LeftLookingUpdated(left_looking.supernode,
         LeftLookingSupernodeUpdate(left_looking.supernode,
           [front |-> InitializeBlockColumn(left_looking.supernode),
            heads |-> left_looking.heads,
            lists |-> left_looking.lists,
            rel_rows |-> left_looking.rel_rows,
            intersect_ptrs |-> left_looking.intersect_ptrs,
            trace |-> <<>>]))
  /\ UNCHANGED <<precision, right_looking>>
  /\ UNCHANGED nfOthers

\* The index in the front of 'supernode' of the row at position i of
\* structure(child): child_rel_indices.
ChildRelativeIndex(supernode, child, i) ==
  IF StructureRow(child, i) < SupernodeStart(supernode) + SupernodeSize(supernode)
  THEN StructureRow(child, i) - SupernodeStart(supernode)
  ELSE SupernodeSize(supernode)
         + (CHOOSE k \in 0..(SupernodeDegree(supernode) - 1) :
              StructureRow(supernode, k) = StructureRow(child, i))

\* MergeChildSchurComplements, one child: its Schur complement is added
\* into the front.
MergeChildSchurComplement(supernode, child, front, C) ==
  [i \in DOMAIN front |-> [j \in DOMAIN front |->
     LET hit == {t \in (0..(SupernodeDegree(child) - 1)) \X (0..(SupernodeDegree(child) - 1)) :
                   /\ t[1] >= t[2]
                   /\ ChildRelativeIndex(supernode, child, t[1]) = i
                   /\ ChildRelativeIndex(supernode, child, t[2]) = j}
     IN  IF hit = {} THEN front[i][j]
         ELSE QAdd(front[i][j],
                   C[SupernodeSize(child) + (CHOOSE t \in hit : TRUE)[1]]
                    [SupernodeSize(child) + (CHOOSE t \in hit : TRUE)[2]])]]

RECURSIVE MergeChildSchurComplements(_, _, _, _, _)
MergeChildSchurComplements(supernode, kids, child_index, front, fronts) ==
  IF child_index > Len(kids) THEN front
  ELSE MergeChildSchurComplements(supernode, kids, child_index + 1,
         MergeChildSchurComplement(supernode, kids[child_index], front,
                                   fronts[kids[child_index] + 1]),
         fronts)

\* The end of RightLookingSupernodeFinalize: the Schur complement of the
\* supernode loses the product of its lower block with its scaled
\* transpose.
FormSchurComplement(finalized, size) ==
  IF ~finalized.succeeded \/ Cardinality(DOMAIN finalized.front) = size THEN finalized
  ELSE [succeeded |-> TRUE,
        front |-> MatrixMultiplyLowerNormalTranspose(
                    finalized.front, FormScaledTranspose(finalized.front, size),
                    0, size, Cardinality(DOMAIN finalized.front))]

RightLookingSupernodeFinalize(supernode, fronts) ==
  FormSchurComplement(
    FinalizeFactored(
      LowerBlockedLDLAdjointFactorization(ControlBlockSize,
        MergeChildSchurComplements(supernode,
          ChildrenOf(relaxed.supernode_parents, supernode), 1,
          InitializeBlockColumn(supernode), fronts),
        SupernodeSize(supernode)),
      SupernodeSize(supernode)),
    SupernodeSize(supernode))

\* RightLookingSubtree after the recursion on the children.
RightLookingFinalized(supernode, fronts, finalized) ==
  [succeeded |-> finalized.succeeded,
   fronts |-> [fronts EXCEPT ![supernode + 1] = finalized.front]]

RightLookingChildrenDone(supernode, done) ==
  IF ~done.succeeded THEN done
  ELSE RightLookingFinalized(supernode, done.fronts,
                             RightLookingSupernodeFinalize(supernode, done.fronts))

RECURSIVE RightLookingSubtreeLoop(_, _, _)
\* The recursion on one subtree, the results of the subtrees before it
\* given.
RightLookingSubtreeMerge(done, subtree) ==
  [succeeded |-> done.succeeded /\ subtree.succeeded, fronts |-> subtree.fronts]

RightLookingSubtreeFactor(supernode, done) ==
  RightLookingSubtreeMerge(done,
    RightLookingChildrenDone(supernode,
      RightLookingSubtreeLoop(ChildrenOf(relaxed.supernode_parents, supernode), 1,
                              [succeeded |-> TRUE, fronts |-> done.fronts])))

\* The loop over the children of a supernode, or over the roots: every
\* subtree is factored, also after one has failed.
RightLookingSubtreeLoop(kids, child_index, done) ==
  IF child_index > Len(kids) THEN done
  ELSE RightLookingSubtreeLoop(kids, child_index + 1,
                               RightLookingSubtreeFactor(kids[child_index], done))

RightLookingReturned(done) ==
  [call |-> IF done.succeeded THEN "done" ELSE "failed", supernode |-> NumSupernodes,
   fronts |-> done.fronts, heads |-> <<>>, lists |-> <<>>, rel_rows |-> <<>>,
   intersect_ptrs |-> <<>>, trace |-> <<>>]

\* RightLooking on one thread.
RightLookingFactor ==
  /\ analysis = "structure"
  /\ right_looking.call = "none"
  /\ left_looking.call # "running"
  /\ right_looking' =
       RightLookingReturned(
         RightLookingSubtreeLoop(ChildrenOf(relaxed.supernode_parents, -1), 1,
           [succeeded |-> TRUE, fronts |-> [s \in 1..NumSupernodes |-> <<>>]]))
  /\ UNCHANGED <<precision, left_looking>>
  /\ UNCHANGED nfOthers

\* The relaxation the numerical factorization is run with: one explicit
\* zero is allowed in a supernode.
FactorRelaxation ==
  RelaxSupernodes(1, <<0, 1>>)

NFNext ==
  \/ FormFundamentalSupernodes
  \/ FactorRelaxation
  \/ KeepFundamentalSupernodes
  \/ FormStructure
  \/ LeftLookingAllocate
  \/ LeftLookingSupernode
  \/ RightLookingFactor

(***************************************************************************)
(* Claims about the numerical factorization.                               *)
(***************************************************************************)
\* The diagonal factor and the lower factor of supernode s in the fronts a
\* driver left: the lower triangle of the diagonal block, and the lower
\* block.
Factors(fronts, s) ==
  IF fronts[s + 1] = <<>> THEN <<>>
  ELSE [i \in 0..(SupernodeSize(s) + SupernodeDegree(s) - 1) |->
          [j \in 0..(SupernodeSize(s) - 1) |->
             IF i >= j THEN fronts[s + 1][i][j] ELSE QInt(0)]]

BothReturned ==
  /\ left_looking.call \in {"done", "failed"}
  /\ right_looking.call \in {"done", "failed"}

\* The supernodes below s whose structure has rows in s.
UpdatingDescendants(s) ==
  {d \in 0..(s - 1) :
     \E k \in 0..(SupernodeDegree(d) - 1) : SupernodeOf(StructureRow(d, k)) = s}

\* The descendant list that starts at 'descendant', cut after 'fuel' links.
RECURSIVE DescendantList(_, _)
DescendantList(descendant, fuel) ==
  IF descendant < 0 \/ fuel = 0 THEN <<>>
  ELSE <<descendant>> \o DescendantList(left_looking.lists[descendant + 1], fuel - 1)

\* The positions of structure(d) whose rows belong to supernode s.
RunOf(d, s) ==
  {k \in 0..(SupernodeDegree(d) - 1) : SupernodeOf(StructureRow(d, k)) = s}

\* The number of runs of structure(d) that lie before supernode s.
RunsBefore(d, s) ==
  Cardinality({SupernodeOf(StructureRow(d, k)) :
                 k \in {j \in 0..(SupernodeDegree(d) - 1) :
                          SupernodeOf(StructureRow(d, j)) < s}})

\* C20: when the left-looking driver is about to process supernode s, the
\* descendant list of s holds exactly the supernodes d < s whose structure
\* has rows in s, each once; rel_rows[d] is the position of the first such
\* row, and intersect_ptrs[d] is the entry of intersect_sizes that counts
\* the rows of structure(d) in s.
C20_DescendantListOfCurrentSupernode ==
  left_looking.call = "running" =>
    LET s == left_looking.supernode
        list == DescendantList(left_looking.heads[s + 1], NumSupernodes + 1)
    IN  /\ Len(list) <= NumSupernodes
        /\ \A e, f \in 1..Len(list) : list[e] = list[f] => e = f
        /\ {list[e] : e \in 1..Len(list)} = UpdatingDescendants(s)
        /\ \A d \in UpdatingDescendants(s) :
             /\ RunOf(d, s) =
                  left_looking.rel_rows[d + 1]
                    ..(left_looking.rel_rows[d + 1]
                         + lower_factor.intersect_sizes[
                             left_looking.intersect_ptrs[d + 1] + 1] - 1)
             /\ left_looking.intersect_ptrs[d + 1] =
                  lower_factor.intersect_size_offsets[d + 1] + RunsBefore(d, s)

\* The driver is about to process a supernode with two descendants in its
\* list, one of them at its second run.
C20_Witness ==
  /\ left_looking.call = "running"
  /\ Cardinality(UpdatingDescendants(left_looking.supernode)) >= 2
  /\ \E d \in UpdatingDescendants(left_looking.supernode) :
       /\ left_looking.rel_rows[d + 1] > 0
       /\ left_looking.intersect_ptrs[d + 1]
            > lower_factor.intersect_size_offsets[d + 1]

\* The list that starts at 'descendant' and follows the links 'lists', cut
\* after 'fuel' links.
RECURSIVE ListFrom(_, _, _)
ListFrom(lists, descendant, fuel) ==
  IF descendant < 0 \/ fuel = 0 THEN <<>>
  ELSE <<descendant>> \o ListFrom(lists, lists[descendant + 1], fuel - 1)

RECURSIVE Concatenation(_, _)
Concatenation(f, n) == IF n = 0 THEN <<>> ELSE Concatenation(f, n - 1) \o f[n]

\* The descendant lists, one after the other: the list of 'supernode',
\* which is being iterated, from the link read for the next descendant, and
\* the list of every other supernode from its head.
AllLists(heads, lists, supernode, next_descendant) ==
  Concatenation([t \in 1..NumSupernodes |->
                   ListFrom(lists,
                            IF t = supernode + 1 THEN next_descendant ELSE heads[t],
                            NumSupernodes + 1)],
                NumSupernodes)

NoSupernodeTwice(q) ==
  /\ Len(q) <= NumSupernodes
  /\ \A e, f \in 1..Len(q) : q[e] = q[f] => e = f

\* The supernode of the last pass of the loop of LeftLooking.
LastPass ==
  IF left_looking.call = "failed" THEN left_looking.supernode
  ELSE left_looking.supernode - 1

\* C25: between the passes of the left-looking driver, and after every step
\* of the loop over the descendants of a supernode, no supernode is in two
\* descendant lists or twice in one; the loop over the list of s visits
\* each supernode whose structure has rows in s exactly once.
C25_OneListPerSupernode ==
  left_looking.call # "none" =>
    /\ NoSupernodeTwice(AllLists(left_looking.heads, left_looking.lists, -1, -1))
    /\ \A e \in 1..Len(left_looking.trace) :
         NoSupernodeTwice(AllLists(left_looking.trace[e].heads,
                                   left_looking.trace[e].lists, LastPass,
                                   left_looking.trace[e].next_descendant))
    /\ \A e, f \in 1..Len(left_looking.trace) :
         left_looking.trace[e].descendant = left_looking.trace[f].descendant => e = f
    /\ LastPass >= 0 =>
         {left_looking.trace[e].descendant : e \in 1..Len(left_looking.trace)}
           = UpdatingDescendants(LastPass)

\* A descendant was inserted, during the pass over the list of s, at the
\* head of the list of another supernode that was not empty: its link then
\* leads into that list and no longer to what followed it in the list of s.
C25_Witness ==
  /\ left_looking.call = "running"
  /\ \E e \in 1..Len(left_looking.trace) : \E t \in 1..NumSupernodes :
       /\ t # LastPass + 1
       /\ left_looking.trace[e].heads[t] = left_looking.trace[e].descendant
       /\ left_looking.trace[e].lists[left_looking.trace[e].descendant + 1] >= 0
       /\ left_looking.trace[e].lists[left_looking.trace[e].descendant + 1]
            # left_looking.trace[e].next_descendant

\* C14 as stated: for the same matrix, ordering and factorization type,
\* with dynamic regularization and supernodal pivoting off, the left-looking
\* and the right-looking driver leave identical lower and diagonal factors.
C14_Original ==
  BothReturned =>
    \A s \in 0..(NumSupernodes - 1) :
      Factors(left_looking.fronts, s) = Factors(right_looking.fronts, s)

\* C14, amended: when both drivers succeed and no operation of the Field
\* rounds, the left-looking and the right-looking driver leave identical
\* lower and diagonal factors.
C14_IdenticalWhenExactAndSuccessful ==
  (left_looking.call = "done" /\ right_looking.call = "done" /\ precision = 0) =>
    \A s \in 0..(NumSupernodes - 1) :
      Factors(left_looking.fronts, s) = Factors(right_looking.fronts, s)

\* Both drivers succeeded in exact arithmetic on a matrix one of whose
\* supernodes is updated by two descendants, one of them not its child.
C14_Witness ==
  /\ left_looking.call = "done" /\ right_looking.call = "done" /\ precision = 0
  /\ \E s \in 0..(NumSupernodes - 1) :
       /\ Cardinality(UpdatingDescendants(s)) >= 2
       /\ \E d \in UpdatingDescendants(s) : relaxed.supernode_parents[d + 1] # s

\* The two drivers differ although both succeeded.
C14_RoundingDiffers ==
  ~(/\ left_looking.call = "done" /\ right_looking.call = "done"
    /\ \E s \in 0..(NumSupernodes - 1) :
         Factors(left_looking.fronts, s) # Factors(right_looking.fronts, s))

(***************************************************************************)
(* The subtree calls and tasks of the right-looking drivers.               *)
(*                                                                         *)
(* RightLooking recurses over the assembly forest on one thread;           *)
(* OpenMPRightLooking makes one task per subtree down to level             *)
(* max_parallel_levels and recurses below it.  subtree_tasks holds, for    *)
(* each supernode, where its RightLookingSubtree or                        *)
(* OpenMPRightLookingSubtree stands ('phase'), the thread that runs it,    *)
(* the size of its Schur complement buffer and the value it returned; for  *)
(* each thread, the subtree calls tied to it, the running one last.  The   *)
(* outcome of FactorDiagonalBlock is an input: 'fails' are the supernodes  *)
(* whose diagonal block has fewer pivots than columns.  'held' is history: *)
(* the supernodes whose buffer was ever given storage.                     *)
(***************************************************************************)
\* Largest omp_get_max_threads().
MaxThreads == 2

NoTasks ==
  [call |-> "none", mode |-> "none", max_threads |-> 0, fails |-> {},
   phase |-> <<>>, thread |-> <<>>, running |-> <<>>, buffers |-> <<>>,
   successes |-> <<>>, held |-> {}]

NoTiles == [call |-> "none"]

TKIdle ==
  /\ subtree_tasks = NoTasks
  /\ tile_tasks = NoTiles

\* A factorization about to be factored: its assembly forest and the
\* supernodes whose diagonal block will not factor.
TKInit ==
  /\ num_supernodes \in 1..MaxSupernodes
  /\ assembly_parents \in PostorderedForests(num_supernodes)
  /\ supernode_sizes = <<>>
  /\ supernode_pivots = <<>>
  /\ driver = "idle"
  /\ num_successful_pivots = 0
  /\ \E fails \in SUBSET (0..(num_supernodes - 1)) :
       subtree_tasks = [NoTasks EXCEPT !.fails = fails]
  /\ tile_tasks = NoTiles

\* The height of the lower block of a supernode and of its Schur
\* complement: a root has no rows below its diagonal block, every other
\* supernode has the rows of its ancestors; one row stands for them.
Degree(s) == IF assembly_parents[s + 1] = -1 THEN 0 ELSE 1

\* The level passed to OpenMPRightLookingSubtree: 1 for a root.
RECURSIVE Level(_)
Level(s) == IF assembly_parents[s + 1] = -1 THEN 1 ELSE 1 + Level(assembly_parents[s + 1])

\* std::ceil(std::log2(n)) for n >= 1.
RECURSIVE CeilLog2From(_, _)
CeilLog2From(n, k) == IF 2 ^ k >= n THEN k ELSE CeilLog2From(n, k + 1)

MaxParallelLevels(max_threads) == CeilLog2From(max_threads, 0) + 3

\* The subtree of s is factored by RightLookingSubtree, on the thread that
\* entered it.
Sequential(s) ==
  \/ subtree_tasks.mode = "sequential"
  \/ Level(s) >= MaxParallelLevels(subtree_tasks.max_threads)

\* The supernodes of the subtree of s, s excluded.
RECURSIVE SubtreeBelow(_)
SubtreeBelow(s) ==
  LET kids == {c \in 0..(num_supernodes - 1) : assembly_parents[c + 1] = s}
  IN  kids \cup UNION {SubtreeBelow(c) : c \in kids}

\* #pragma omp task for each of 'kids'.
RECURSIVE SpawnTasks(_, _)
SpawnTasks(phase, kids) ==
  IF kids = <<>> THEN phase
  ELSE SpawnTasks([phase EXCEPT ![Head(kids) + 1] = "spawned"], Tail(kids))

\* A failed subtree that leaves the fronts of its children as they are.
RECURSIVE KeepChildFronts(_, _)
KeepChildFronts(buffers, kids) ==
  IF kids = <<>> THEN buffers ELSE KeepChildFronts(buffers, Tail(kids))

\* child_schur_complement_buffer.Clear() for each of 'kids': the loop that
\* clears the child fronts when a child failed.
RECURSIVE ClearChildFronts(_, _)
ClearChildFronts(buffers, kids) ==
  IF kids = <<>> THEN buffers
  ELSE ClearChildFronts([buffers EXCEPT ![Head(kids) + 1] = 0], Tail(kids))

\* The clears at the end of each pass of the loop of
\* MergeChildSchurComplements.
RECURSIVE MergedChildBuffers(_, _)
MergedChildBuffers(buffers, kids) ==
  IF kids = <<>> THEN buffers
  ELSE MergedChildBuffers([buffers EXCEPT ![Head(kids) + 1] = 0], Tail(kids))

\* The subtree calls of 'kids' have returned: the end of the loop over the
\* children in RightLookingSubtree, the end of the taskgroup in
\* OpenMPRightLookingSubtree.
ChildrenReturned(tasks, kids) ==
  \A e \in 1..Len(kids) : tasks.phase[kids[e] + 1] = "done"

\* One scratch buffer for all threads.
SharedPrivateState(thread) == 0

\* The PrivateState a subtree call on 'thread' uses:
\* (*private_states)[omp_get_thread_num()].
PrivateStateOf(thread) == thread

\* RightLooking on one thread, or OpenMPRightLooking, up to the loop over
\* the roots; the OpenMP driver makes a task of every root.
RightLookingEnter(mode, max_threads) ==
  /\ subtree_tasks.call = "none"
  /\ subtree_tasks' =
       [call |-> "running", mode |-> mode, max_threads |-> max_threads,
        fails |-> subtree_tasks.fails,
        phase |-> IF mode = "openmp"
                  THEN SpawnTasks(Filled(num_supernodes, "none"), Roots)
                  ELSE Filled(num_supernodes, "none"),
        thread |-> Filled(num_supernodes, -1),
        running |-> Filled(max_threads, <<>>),
        buffers |-> Filled(num_supernodes, 0),
        successes |-> Filled(num_supernodes, FALSE),
        held |-> {}]
  /\ UNCHANGED <<tile_tasks, drVars>>
  /\ UNCHANGED <<cmVars, dkVars, efVars, snVars, nfVars, slVars, dpVars>>

\* The subtree call of s starts on 'thread': the children are made tasks
\* in the OpenMP driver above max_parallel_levels, and are left to be
\* called one after the other otherwise.
SubtreeEntered(tasks, s, thread, sequential) ==
  [tasks EXCEPT
     !.phase = IF sequential THEN [@ EXCEPT ![s + 1] = "waiting"]
               ELSE SpawnTasks([@ EXCEPT ![s + 1] = "waiting"], Children(s)),
     !.thread[s + 1] = thread,
     !.running[thread + 1] = Append(@, s)]

\* The subtree call of s returns 'succeeded'.
SubtreeReturned(tasks, s, succeeded) ==
  [tasks EXCEPT
     !.phase[s + 1] = "done",
     !.successes[s + 1] = succeeded,
     !.running[tasks.thread[s + 1] + 1] = SubSeq(@, 1, Len(@) - 1)]

\* The siblings of s before it, roots when s is a root, have returned.
EarlierSiblingsReturned(s) ==
  \A c \in 0..(s - 1) :
    assembly_parents[c + 1] = assembly_parents[s + 1] =>
      subtree_tasks.phase[c + 1] = "done"

\* RightLookingSubtree is called for s: by the loop over the roots of
\* RightLooking, or by the loop over the children of its parent.
RightLookingSubtreeCall(s) ==
  /\ subtree_tasks.call = "running"
  /\ subtree_tasks.phase[s + 1] = "none"
  /\ EarlierSiblingsReturned(s)
  /\ IF assembly_parents[s + 1] = -1
     THEN /\ subtree_tasks.mode = "sequential"
          /\ subtree_tasks' = SubtreeEntered(subtree_tasks, s, 0, TRUE)
     ELSE /\ subtree_tasks.phase[assembly_parents[s + 1] + 1] = "waiting"
          /\ Sequential(assembly_parents[s + 1])
          /\ subtree_tasks' =
               SubtreeEntered(subtree_tasks, s,
                              subtree_tasks.thread[assembly_parents[s + 1] + 1], TRUE)
  /\ UNCHANGED <<tile_tasks, drVars>>
  /\ UNCHANGED <<cmVars, dkVars, efVars, snVars, nfVars, slVars, dpVars>>

\* A thread may take a new tied task when no task is tied to it, or when
\* the task it runs waits in a taskgroup and the new task descends from it.
MayRun(thread, s) ==
  LET tied == subtree_tasks.running[thread + 1]
  IN  IF tied = <<>> THEN TRUE
      ELSE /\ subtree_tasks.phase[tied[Len(tied)] + 1] = "waiting"
           /\ ~Sequential(tied[Len(tied)])
           /\ s \in SubtreeBelow(tied[Len(tied)])

\* A thread of the team starts the task of the subtree of s.
OpenMPRightLookingSubtreeTask(s, thread) ==
  /\ subtree_tasks.call = "running"
  /\ subtree_tasks.phase[s + 1] = "spawned"
  /\ thread < subtree_tasks.max_threads
  /\ MayRun(thread, s)
  /\ subtree_tasks' = SubtreeEntered(subtree_tasks, s, thread, Sequential(s))
  /\ UNCHANGED <<tile_tasks, drVars>>
  /\ UNCHANGED <<cmVars, dkVars, efVars, snVars, nfVars, slVars, dpVars>>

\* A subtree call that finalizes its supernode without the results of its
\* children.
FinalizeWithoutChildren(s, returned_all) ==
  /\ subtree_tasks.call = "running"
  /\ subtree_tasks.phase[s + 1] = "waiting"
  /\ subtree_tasks' =
       [subtree_tasks EXCEPT
          !.phase[s + 1] = "merging",
          !.buffers[s + 1] = Degree(s) * Degree(s)]
  /\ UNCHANGED <<tile_tasks, drVars>>
  /\ UNCHANGED <<cmVars, dkVars, efVars, snVars, nfVars, slVars, dpVars>>

\* After the children: when all succeeded the supernode is finalized,
\* starting with the Resize of its Schur complement buffer; else the
\* fronts of the children are cleared.
AfterChildren(s, returned_all) ==
  /\ subtree_tasks.call = "running"
  /\ subtree_tasks.phase[s + 1] = "waiting"
  /\ returned_all
  /\ subtree_tasks' =
       IF \A c \in 0..(num_supernodes - 1) :
            assembly_parents[c + 1] = s => subtree_tasks.successes[c + 1]
       THEN [subtree_tasks EXCEPT
               !.phase[s + 1] = "merging",
               !.buffers[s + 1] = Degree(s) * Degree(s),
               !.held = IF Degree(s) > 0 THEN @ \cup {s} ELSE @]
       ELSE [subtree_tasks EXCEPT !.phase[s + 1] = "clearing"]
  /\ UNCHANGED <<tile_tasks, drVars>>
  /\ UNCHANGED <<cmVars, dkVars, efVars, snVars, nfVars, slVars, dpVars>>

SubtreeJoin(s) == AfterChildren(s, ChildrenReturned(subtree_tasks, Children(s)))

\* MergeChildSchurComplements has run; the diagonal block is next.
SupernodeMerged(s) ==
  /\ subtree_tasks.call = "running"
  /\ subtree_tasks.phase[s + 1] = "merging"
  /\ subtree_tasks' =
       [subtree_tasks EXCEPT
          !.phase[s + 1] = "factoring",
          !.buffers = MergedChildBuffers(@, Children(s))]
  /\ UNCHANGED <<tile_tasks, drVars>>
  /\ UNCHANGED <<cmVars, dkVars, efVars, snVars, nfVars, slVars, dpVars>>

\* FactorDiagonalBlock has run: the finalization returns false on a
\* missing pivot and true for a root, and goes on to the lower block and
\* the Schur complement otherwise.
DiagonalBlockFactored(s) ==
  /\ subtree_tasks.call = "running"
  /\ subtree_tasks.phase[s + 1] = "factoring"
  /\ subtree_tasks' =
       IF s \in subtree_tasks.fails THEN SubtreeReturned(subtree_tasks, s, FALSE)
       ELSE IF Degree(s) = 0 THEN SubtreeReturned(subtree_tasks, s, TRUE)
       ELSE [subtree_tasks EXCEPT !.phase[s + 1] = "updating"]
  /\ UNCHANGED <<tile_tasks, drVars>>
  /\ UNCHANGED <<cmVars, dkVars, efVars, snVars, nfVars, slVars, dpVars>>

\* The solve against the diagonal block and the Schur complement are done.
SchurComplementFormed(s) ==
  /\ subtree_tasks.call = "running"
  /\ subtree_tasks.phase[s + 1] = "updating"
  /\ subtree_tasks' = SubtreeReturned(subtree_tasks, s, TRUE)
  /\ UNCHANGED <<tile_tasks, drVars>>
  /\ UNCHANGED <<cmVars, dkVars, efVars, snVars, nfVars, slVars, dpVars>>

\* The child fronts are cleared and the subtree returns false.
ChildFrontsCleared(s) ==
  /\ subtree_tasks.call = "running"
  /\ subtree_tasks.phase[s + 1] = "clearing"
  /\ subtree_tasks' =
       SubtreeReturned(
         [subtree_tasks EXCEPT !.buffers = ClearChildFronts(@, Children(s))],
         s, FALSE)
  /\ UNCHANGED <<tile_tasks, drVars>>
  /\ UNCHANGED <<cmVars, dkVars, efVars, snVars, nfVars, slVars, dpVars>>

\* The driver returns after the subtrees of all roots: at the end of its
\* loop, or of the parallel region.  The shared state is shown as the
\* driver left it, before it goes out of scope.
RightLookingReturn ==
  /\ subtree_tasks.call = "running"
  /\ ChildrenReturned(subtree_tasks, Roots)
  /\ subtree_tasks' = [subtree_tasks EXCEPT !.call = "returned"]
  /\ UNCHANGED <<tile_tasks, drVars>>
  /\ UNCHANGED <<cmVars, dkVars, efVars, snVars, nfVars, slVars, dpVars>>

TKNext ==
  \/ RightLookingEnter("sequential", 1)
  \/ \E max_threads \in 2..MaxThreads : RightLookingEnter("openmp", max_threads)
  \/ \E s \in 0..(num_supernodes - 1) : RightLookingSubtreeCall(s)
  \/ \E s \in 0..(num_supernodes - 1) : \E thread \in 0..(MaxThreads - 1) :
       OpenMPRightLookingSubtreeTask(s, thread)
  \/ \E s \in 0..(num_supernodes - 1) : SubtreeJoin(s)
  \/ \E s \in 0..(num_supernodes - 1) : SupernodeMerged(s)
  \/ \E s \in 0..(num_supernodes - 1) : DiagonalBlockFactored(s)
  \/ \E s \in 0..(num_supernodes - 1) : SchurComplementFormed(s)
  \/ \E s \in 0..(num_supernodes - 1) : ChildFrontsCleared(s)
  \/ RightLookingReturn

\* The memory the subtree call of s writes in the phase it is in: the
\* blocks of the factor of a supernode ("front"), a Schur complement buffer
\* with its view ("buffer"), the result and the success flag it was handed
\* by its caller, and the scaled transpose buffer of a PrivateState
\* ("scratch").
Writes(s) ==
  LET phase == subtree_tasks.phase[s + 1]
      kids == {c \in 0..(num_supernodes - 1) : assembly_parents[c + 1] = s}
      returns == {<<"result", s>>, <<"success", s>>}
  IN  IF phase = "merging"
      THEN {<<"front", s>>, <<"buffer", s>>} \cup {<<"buffer", c>> : c \in kids}
             \cup returns
      ELSE IF phase = "factoring" THEN {<<"front", s>>} \cup returns
      ELSE IF phase = "updating"
      THEN {<<"front", s>>, <<"buffer", s>>,
            <<"scratch", PrivateStateOf(subtree_tasks.thread[s + 1])>>} \cup returns
      ELSE IF phase = "clearing" THEN {<<"buffer", c>> : c \in kids} \cup returns
      ELSE {}

(***************************************************************************)
(* Claims about the right-looking drivers.                                 *)
(***************************************************************************)
TaskSupernodes ==
  IF subtree_tasks.call = "none" THEN {} ELSE 0..(num_supernodes - 1)

\* C21: in both right-looking drivers a supernode starts to merge the Schur
\* complements of its children only when the subtree call of every
\* supernode below it has returned, none of them runs while it merges,
\* factors or updates, and its diagonal block is factored only by a step
\* from the merge.
C21_MergeAfterChildrenFactorAfterMerge ==
  [][subtree_tasks.call = "running" /\ subtree_tasks'.call = "running" =>
       \A s \in 0..(num_supernodes - 1) :
         /\ subtree_tasks.phase[s + 1] \in {"merging", "factoring", "updating"} =>
              \A d \in SubtreeBelow(s) : subtree_tasks.phase[d + 1] = "done"
         /\ (subtree_tasks'.phase[s + 1] = "merging"
               /\ subtree_tasks.phase[s + 1] # "merging") =>
              \A d \in SubtreeBelow(s) : subtree_tasks.phase[d + 1] = "done"
         /\ (subtree_tasks'.phase[s + 1] = "factoring"
               /\ subtree_tasks.phase[s + 1] # "factoring") =>
              /\ subtree_tasks.phase[s + 1] = "merging"
              /\ \A d \in SubtreeBelow(s) : subtree_tasks'.buffers[d + 1] = 0]_vars

\* The OpenMP driver factors the diagonal block of a supernode whose two
\* children were factored by tasks on two threads.
C21_Witness ==
  /\ subtree_tasks.mode = "openmp"
  /\ \E s \in TaskSupernodes :
       /\ subtree_tasks.phase[s + 1] = "factoring"
       /\ \E c, d \in TaskSupernodes :
            /\ assembly_parents[c + 1] = s /\ assembly_parents[d + 1] = s
            /\ subtree_tasks.thread[c + 1] # subtree_tasks.thread[d + 1]
            /\ c \in subtree_tasks.held /\ d \in subtree_tasks.held

\* C22: a Schur complement buffer holds storage only from the finalization
\* of its supernode until the parent has merged it or cleared it, and none
\* holds storage when the driver returns, whether it succeeded or not.
C22_BuffersReleased ==
  /\ \A s \in TaskSupernodes :
       subtree_tasks.buffers[s + 1] > 0 =>
         /\ subtree_tasks.phase[s + 1] \in {"merging", "factoring", "updating", "done"}
         /\ assembly_parents[s + 1] # -1
         /\ subtree_tasks.phase[assembly_parents[s + 1] + 1]
              \in {"none", "spawned", "waiting", "merging", "clearing"}
  /\ subtree_tasks.call = "returned" =>
       \A s \in TaskSupernodes : subtree_tasks.buffers[s + 1] = 0

\* The driver returned after a failure: a supernode that held a buffer
\* failed, and another that held a buffer had succeeded.
C22_Witness ==
  /\ subtree_tasks.call = "returned"
  /\ \E s, t \in subtree_tasks.held :
       /\ ~subtree_tasks.successes[s + 1]
       /\ subtree_tasks.successes[t + 1]
       /\ assembly_parents[t + 1] # s

\* The memory of the subtree of s: the blocks and buffers of its
\* supernodes, and the result and success flag of its call.
OwnMemory(s) ==
  {<<"front", d>> : d \in SubtreeBelow(s) \cup {s}}
    \cup {<<"buffer", d>> : d \in SubtreeBelow(s) \cup {s}}
    \cup {<<"result", s>>, <<"success", s>>}

\* C23: in the OpenMP driver a subtree task writes, besides the scratch
\* buffer of the thread it runs on, only the memory of its subtree, and no
\* two subtree calls write the same memory at the same time.
C23_TasksWriteDisjointMemory ==
  subtree_tasks.mode = "openmp" =>
    /\ \A s \in TaskSupernodes :
         Writes(s) \subseteq
           OwnMemory(s) \cup {<<"scratch", subtree_tasks.thread[s + 1]>>}
    /\ \A s, t \in TaskSupernodes : s # t => Writes(s) \cap Writes(t) = {}

\* Two subtree tasks form their Schur complements at the same time on two
\* threads.
C23_Witness ==
  /\ subtree_tasks.mode = "openmp"
  /\ \E s, t \in TaskSupernodes :
       /\ s # t
       /\ subtree_tasks.phase[s + 1] = "updating"
       /\ subtree_tasks.phase[t + 1] = "updating"
       /\ subtree_tasks.thread[s + 1] # subtree_tasks.thread[t + 1]

(***************************************************************************)
(* The tile tasks of the OpenMP dense kernels.                             *)
(*                                                                         *)
(* OpenMPLDLAdjointFactorization and OpenMPBlockedSampleLowerHermitianDPP  *)
(* make, inside one taskgroup, a task for the diagonal tile of each tile   *)
(* column (in a taskgroup of its own), a task per tile below it, and a     *)
(* task per tile of the trailing update.  A tile is named by the matrix it *)
(* lies in ("matrix", or "factor" for the buffer of the conjugated panel)  *)
(* and the row and column it starts at.  tile_tasks holds the tasks of the *)
(* call in the order the loops make them, how many were made, and which    *)
(* are waiting, running and done.                                          *)
(***************************************************************************)
\* One task: the tiles of its depend(in) and depend(inout) clauses, the
\* tiles its body reads and writes, and whether it is alone in a taskgroup.
TileTask(kind, ins, inouts, reads, writes, grouped) ==
  [kind |-> kind, ins |-> ins, inouts |-> inouts, reads |-> reads,
   writes |-> writes, grouped |-> grouped]

\* The task of the diagonal tile at i.
DiagonalTileTask(i) ==
  TileTask("diagonal", {}, {<<"matrix", i, i>>},
           {<<"matrix", i, i>>}, {<<"matrix", i, i>>}, TRUE)

\* The task of the tile at (i_sub, i) below the diagonal tile.
SolveTileTask(i, i_sub) ==
  TileTask("solve", {}, {<<"matrix", i_sub, i>>},
           {<<"matrix", i, i>>, <<"matrix", i_sub, i>>},
           {<<"matrix", i_sub, i>>, <<"factor", i_sub, i>>}, FALSE)

\* An update of a diagonal tile that declares no depend(in).
DiagonalUpdateWithoutIn(i, j_sub) ==
  TileTask("update", {}, {<<"matrix", j_sub, j_sub>>},
           {<<"matrix", j_sub, i>>, <<"factor", j_sub, i>>, <<"matrix", j_sub, j_sub>>},
           {<<"matrix", j_sub, j_sub>>}, FALSE)

\* The task that updates the diagonal tile at j_sub with tile column i.
DiagonalUpdateTask(i, j_sub) ==
  TileTask("update", {<<"matrix", j_sub, i>>}, {<<"matrix", j_sub, j_sub>>},
           {<<"matrix", j_sub, i>>, <<"factor", j_sub, i>>, <<"matrix", j_sub, j_sub>>},
           {<<"matrix", j_sub, j_sub>>}, FALSE)

\* The task that updates the tile at (i_sub, j_sub) with tile column i.
OffDiagonalUpdateTask(i, j_sub, i_sub) ==
  TileTask("update", {<<"matrix", i_sub, i>>, <<"matrix", j_sub, i>>},
           {<<"matrix", i_sub, j_sub>>},
           {<<"matrix", i_sub, i>>, <<"factor", j_sub, i>>, <<"matrix", i_sub, j_sub>>},
           {<<"matrix", i_sub, j_sub>>}, FALSE)

\* for (i_sub = i + tsize; i_sub < height; i_sub += tile_size): the solves.
RECURSIVE SolveTileLoop(_, _, _, _)
SolveTileLoop(i, i_sub, height_, tile_size_) ==
  IF i_sub >= height_ THEN <<>>
  ELSE <<SolveTileTask(i, i_sub)>>
         \o SolveTileLoop(i, i_sub + tile_size_, height_, tile_size_)

\* for (i_sub = j_sub + tsize; i_sub < height; i_sub += tile_size).
RECURSIVE OffDiagonalUpdateLoop(_, _, _, _, _)
OffDiagonalUpdateLoop(i, j_sub, i_sub, height_, tile_size_) ==
  IF i_sub >= height_ THEN <<>>
  ELSE <<OffDiagonalUpdateTask(i, j_sub, i_sub)>>
         \o OffDiagonalUpdateLoop(i, j_sub, i_sub + tile_size_, height_, tile_size_)

\* for (j_sub = i + tsize; j_sub < height; j_sub += tile_size): the update.
RECURSIVE UpdateTileLoop(_, _, _, _, _)
UpdateTileLoop(i, j_sub, tsize, height_, tile_size_) ==
  IF j_sub >= height_ THEN <<>>
  ELSE <<DiagonalUpdateTask(i, j_sub)>>
         \o OffDiagonalUpdateLoop(i, j_sub, j_sub + tsize, height_, tile_size_)
         \o UpdateTileLoop(i, j_sub + tile_size_, tsize, height_, tile_size_)

\* for (i = 0; i < height; i += tile_size), with its break after the last
\* diagonal tile and, in the factorization, after the tile at 'failed',
\* whose diagonal block has a missing pivot.
RECURSIVE TileLoop(_, _, _, _)
TileLoop(i, height_, tile_size_, failed) ==
  IF i >= height_ THEN <<>>
  ELSE <<DiagonalTileTask(i)>>
         \o IF failed = i \/ height_ = i + Min(height_ - i, tile_size_) THEN <<>>
            ELSE SolveTileLoop(i, i + Min(height_ - i, tile_size_), height_, tile_size_)
                   \o UpdateTileLoop(i, i + Min(height_ - i, tile_size_),
                                     Min(height_ - i, tile_size_), height_, tile_size_)
                   \o TileLoop(i + tile_size_, height_, tile_size_, failed)

\* The tile starts of a matrix.
TileStarts(height_, tile_size_) ==
  {i \in 0..(height_ - 1) : i % tile_size_ = 0}

\* A kernel is called: no task is made yet.  The sampling kernel has no
\* failed pivot.
OpenMPKernelEnter(kernel_, height_, tile_size_, failed) ==
  /\ tile_tasks.call = "none"
  /\ kernel_ = "dpp" => failed = -1
  /\ tile_tasks' =
       [call |-> "running", kernel |-> kernel_, height |-> height_,
        tile_size |-> tile_size_, failed |-> failed,
        tasks |-> TileLoop(0, height_, tile_size_, failed),
        generated |-> 0,
        status |-> Filled(Len(TileLoop(0, height_, tile_size_, failed)), "waiting")]
  /\ UNCHANGED subtree_tasks
  /\ UNCHANGED <<cmVars, dkVars, drVars, efVars, snVars, nfVars, slVars, dpVars>>

\* The encountering thread makes the next task; after a task that is alone
\* in a taskgroup it first waits for it.
TileTaskGenerate ==
  /\ tile_tasks.call = "running"
  /\ tile_tasks.generated < Len(tile_tasks.tasks)
  /\ IF tile_tasks.generated = 0 THEN TRUE
     ELSE tile_tasks.tasks[tile_tasks.generated].grouped =>
            tile_tasks.status[tile_tasks.generated] = "done"
  /\ tile_tasks' = [tile_tasks EXCEPT !.generated = @ + 1]
  /\ UNCHANGED subtree_tasks
  /\ UNCHANGED <<cmVars, dkVars, drVars, efVars, snVars, nfVars, slVars, dpVars>>

\* Task 'later' is a dependent task of the sibling 'earlier' made before
\* it: an in or inout item of the later matches an inout item of the
\* earlier, or an inout item of the later matches an in item of the earlier.
DependentTask(earlier, later) ==
  \/ earlier.inouts \cap (later.ins \cup later.inouts) # {}
  \/ earlier.ins \cap later.inouts # {}

\* A thread starts task k: the tasks it depends on are done.
TileTaskStart(k) ==
  /\ tile_tasks.call = "running"
  /\ k <= tile_tasks.generated
  /\ tile_tasks.status[k] = "waiting"
  /\ \A e \in 1..(k - 1) :
       DependentTask(tile_tasks.tasks[e], tile_tasks.tasks[k]) =>
         tile_tasks.status[e] = "done"
  /\ tile_tasks' = [tile_tasks EXCEPT !.status[k] = "running"]
  /\ UNCHANGED subtree_tasks
  /\ UNCHANGED <<cmVars, dkVars, drVars, efVars, snVars, nfVars, slVars, dpVars>>

TileTaskComplete(k) ==
  /\ tile_tasks.call = "running"
  /\ k <= tile_tasks.generated
  /\ tile_tasks.status[k] = "running"
  /\ tile_tasks' = [tile_tasks EXCEPT !.status[k] = "done"]
  /\ UNCHANGED subtree_tasks
  /\ UNCHANGED <<cmVars, dkVars, drVars, efVars, snVars, nfVars, slVars, dpVars>>

\* The end of the outer taskgroup and the return.
OpenMPKernelReturn ==
  /\ tile_tasks.call = "running"
  /\ tile_tasks.generated = Len(tile_tasks.tasks)
  /\ \A k \in 1..Len(tile_tasks.tasks) : tile_tasks.status[k] = "done"
  /\ tile_tasks' = [tile_tasks EXCEPT !.call = "returned"]
  /\ UNCHANGED subtree_tasks
  /\ UNCHANGED <<cmVars, dkVars, drVars, efVars, snVars, nfVars, slVars, dpVars>>

MaxTileTasks == (MaxHeight * (MaxHeight + 1) * (MaxHeight + 2)) \div 6 + MaxHeight

TLNext ==
  \/ \E kernel_ \in {"ldl", "dpp"}, height_ \in 1..MaxHeight, tile_size_ \in 1..MaxBlockSize :
       \E failed \in {-1} \cup TileStarts(height_, tile_size_) :
         OpenMPKernelEnter(kernel_, height_, tile_size_, failed)
  \/ TileTaskGenerate
  \/ \E k \in 1..MaxTileTasks : TileTaskStart(k)
  \/ \E k \in 1..MaxTileTasks : TileTaskComplete(k)
  \/ OpenMPKernelReturn

(***************************************************************************)
(* Claims about the tile tasks.                                            *)
(***************************************************************************)
RunningTileTasks ==
  IF tile_tasks.call = "none" THEN {}
  ELSE {k \in 1..tile_tasks.generated : tile_tasks.status[k] = "running"}

\* Two tasks access a tile that one of them writes.
Conflict(a, b) ==
  \/ a.writes \cap (b.reads \cup b.writes) # {}
  \/ b.writes \cap (a.reads \cup a.writes) # {}

\* C24: in the tiled OpenMP factorization and sampling kernels two tasks
\* that access the same tile of the matrix or of the buffer, one of them
\* writing it, never run at the same time: the depend clauses or the wait
\* of a taskgroup put one after the other.
C24_ConflictingTileTasksOrdered ==
  \A a, b \in RunningTileTasks :
    a # b => ~Conflict(tile_tasks.tasks[a], tile_tasks.tasks[b])

\* Two tasks that read one tile run at the same time while a task that
\* writes a tile one of them reads has been made and waits.
C24_Witness ==
  \E a, b \in RunningTileTasks :
    /\ a # b
    /\ tile_tasks.tasks[a].reads \cap tile_tasks.tasks[b].reads # {}
    /\ \E c \in 1..tile_tasks.generated :
         /\ tile_tasks.status[c] = "waiting"
         /\ Conflict(tile_tasks.tasks[a], tile_tasks.tasks[c])

Init == CMInit /\ DKIdle /\ DRIdle /\ EFIdle /\ SNIdle /\ NFIdle /\ SLIdle /\ DPIdle /\ TKIdle

Next == CMNext

Spec == Init /\ [][Next]_vars

DenseInit == DKInit /\ CMInit /\ DRIdle /\ EFIdle /\ SNIdle /\ NFIdle /\ SLIdle /\ DPIdle /\ TKIdle

DenseSpec == DenseInit /\ [][DKNext]_vars

DriverInit == DRInit /\ CMInit /\ DKIdle /\ EFIdle /\ SNIdle /\ NFIdle /\ SLIdle /\ DPIdle /\ TKIdle

DriverSpec == DriverInit /\ [][DRNext]_vars

RegularizedInit == RGInit /\ CMInit /\ SNIdle /\ NFIdle /\ SLIdle /\ DPIdle /\ TKIdle

RegularizedSpec == RegularizedInit /\ [][RGNext]_vars

SolveInit == SLInit /\ CMInit /\ DKIdle /\ EFIdle /\ SNIdle /\ NFIdle /\ DPIdle /\ TKIdle

SolveSpec == SolveInit /\ [][SLNext]_vars

ForwardSolveInit == ForwardInit /\ CMInit /\ DKIdle /\ EFIdle /\ SNIdle /\ NFIdle /\ DPIdle /\ TKIdle

ForwardSpec == ForwardSolveInit /\ [][ForwardNext]_vars

SampleInit == DPInit /\ CMInit /\ DRIdle /\ EFIdle /\ SNIdle /\ NFIdle /\ SLIdle /\ TKIdle

SampleSpec == SampleInit /\ [][DPNext]_vars

TaskInit == TKInit /\ CMInit /\ DKIdle /\ EFIdle /\ SNIdle /\ NFIdle /\ SLIdle /\ DPIdle

TaskSpec == TaskInit /\ [][TKNext]_vars

TileSpec == Init /\ [][TLNext]_vars

ForestInit == EFInit /\ DKIdle /\ DRIdle /\ SNIdle /\ NFIdle /\ SLIdle /\ DPIdle /\ TKIdle

ForestSpec == ForestInit /\ [][EFNext]_vars

\* The matrices handed to the symbolic analysis: flushed, with a symmetric
\* pattern, ordered as given or by the reversal of the indices.
AnalysisInit ==
  /\ num_rows \in 1..MaxOrder
  /\ num_columns = num_rows
  /\ entries \in {SymmetricEntries(num_rows, S) :
                    S \in {T \in SUBSET StrictLower(num_rows) : Cardinality(T) <= MaxEdges}}
  /\ row_entry_offsets = UpdateRowEntryOffsets(entries, num_rows)
  /\ entries_to_add = <<>>
  /\ entries_to_remove = <<>>
  /\ lastOp = "flush"
  /\ flushed = NoBatch
  /\ numFlushes = 0
  /\ numQueued = 0
  /\ permutation \in {<<>>, [i \in 1..num_rows |-> num_rows - i]}
  /\ inverse_permutation = InverseOf(permutation)
  /\ parents = <<>>
  /\ degrees = <<>>
  /\ forest_call = "none"
  /\ SNInit /\ DKIdle /\ DRIdle /\ NFIdle /\ SLIdle /\ DPIdle /\ TKIdle

AnalysisSpec == AnalysisInit /\ [][SNNext]_vars

\* The matrices handed to the numerical factorization: a symmetric pattern
\* with -1 off the diagonal, and on the diagonal 1 in the first two rows
\* and 3 in the others, so that some leading minors vanish; the Field is
\* exact or rounds.
ValuedEntries(es) ==
  [e \in 1..Len(es) |->
     [es[e] EXCEPT !.value = IF es[e].row # es[e].column THEN -1
                             ELSE IF es[e].row < 2 THEN 1 ELSE 3]]

FactorInit ==
  /\ num_rows \in 1..MaxOrder
  /\ num_columns = num_rows
  /\ entries \in {ValuedEntries(SymmetricEntries(num_rows, S)) :
                    S \in {T \in SUBSET StrictLower(num_rows) : Cardinality(T) <= MaxEdges}}
  /\ row_entry_offsets = UpdateRowEntryOffsets(entries, num_rows)
  /\ entries_to_add = <<>>
  /\ entries_to_remove = <<>>
  /\ lastOp = "flush"
  /\ flushed = NoBatch
  /\ numFlushes = 0
  /\ numQueued = 0
  /\ permutation = <<>>
  /\ inverse_permutation = <<>>
  /\ parents = <<>>
  /\ degrees = <<>>
  /\ forest_call = "none"
  /\ SNInit /\ DKIdle /\ DRIdle /\ SLIdle /\ DPIdle /\ TKIdle
  /\ precision \in {0, SigBits}
  /\ left_looking = NoFactorization
  /\ right_looking = NoFactorization

FactorSpec == FactorInit /\ [][NFNext]_vars

=============================================================================
